---- MODULE Spec2Model ----
(***************************************************************************)
(* A model of the InvokeLens SDK runtime: the invocation wrapper           *)
(* (decorators.py), the TTL status/policy cache and the rate tracker       *)
(* (status.py) and the cost estimator (cost.py).                           *)
(*                                                                         *)
(* Time is the monotonic clock in seconds; Tick advances it.  Python       *)
(* values that may be of any type (JSON sent by the backend, values        *)
(* returned by the user function) are records [k, v, l]: k is the type     *)
(* tag, v the number, l the list.                                          *)
(***************************************************************************)
EXTENDS Integers, Sequences, FiniteSets, TLC

\* ------------------------------------------------------------- bounds
\* The clock runs 0, TickSeconds, ..., MaxTicks * TickSeconds.
MaxTicks == 4
TickSeconds == 30
\* A caller starts a wrapped call while the agent has fewer recorded
\* timestamps than this.
MaxCalls == 3
\* ttl_seconds the status checker is constructed with
TTL == 60
\* How many of the latest backend calls per agent the history keeps.
LogDepth == 3
\* Transports are constructed with batch_size in 1..MaxBatch and
\* max_queue_size in 0..MaxQueue; send() is called at most MaxSends times and
\* shutdown() at most MaxShutdowns times.
MaxBatch == 2
MaxQueue == 2
MaxSends == 3
MaxShutdowns == 2
\* Spans are started while fewer than MaxDepth spans are on the active stack.
MaxDepth == 3

\* ---------------------------------------------------- Python values
Num(n) == [k |-> "num", v |-> n, l |-> <<>>]
Str == [k |-> "str", v |-> 0, l |-> <<>>]
Null == [k |-> "none", v |-> 0, l |-> <<>>]
\* float("inf")
Inf == [k |-> "inf", v |-> 0, l |-> <<>>]
List(s) == [k |-> "list", v |-> 0, l |-> s]

IsNumber(x) == x.k \in {"num", "inf"}
\* Python truthiness of a value
Truthy(x) ==
  CASE x.k = "num" -> x.v # 0
    [] x.k = "inf" -> TRUE
    [] x.k = "str" -> TRUE
    [] x.k = "none" -> FALSE
    [] x.k = "list" -> x.l # <<>>
\* x > y and x >= y on numbers (callers check IsNumber first: Python raises
\* TypeError on the other types)
Gt(x, y) ==
  IF x.k = "inf" THEN y.k # "inf"
  ELSE IF y.k = "inf" THEN FALSE
  ELSE x.v > y.v
Ge(x, y) ==
  IF x.k = "inf" THEN TRUE
  ELSE IF y.k = "inf" THEN FALSE
  ELSE x.v >= y.v

\* None for the optional strings (blocked_reason, error fields)
NoneS == "<None>"

\* dict.get(key, default)
Get(d, key, default) == IF key \in DOMAIN d THEN d[key] ELSE default

\* ------------------------------------------------------------ cost.py
\* Prices per 1,000 tokens in units of 1e-8 USD (the precision of the
\* 8-decimal rounding).
MODEL_PRICING ==
  [m \in {"anthropic.claude-3-haiku", "anthropic.claude-3-sonnet", "_default"} |->
     CASE m = "anthropic.claude-3-haiku" -> [input |-> 25000, output |-> 125000]
       [] m = "anthropic.claude-3-sonnet" -> [input |-> 300000, output |-> 1500000]
       [] m = "_default" -> [input |-> 300000, output |-> 1500000]]

\* round(x / d) to the nearest integer, ties to even (Python's round)
RoundDiv(n, d) ==
  LET q == n \div d
      r == n % d
  IN  IF 2 * r < d THEN q
      ELSE IF 2 * r > d THEN q + 1
      ELSE IF q % 2 = 0 THEN q ELSE q + 1

Pricing(custom, model_id) ==
  IF model_id \in DOMAIN custom THEN custom[model_id]
  ELSE IF model_id \in DOMAIN MODEL_PRICING THEN MODEL_PRICING[model_id]
  ELSE MODEL_PRICING["_default"]

\* A faulty variant of estimate_cost: the output cost is taken off.
estimate_costNet(custom, model_id, input_tokens, output_tokens) ==
  LET p == Pricing(custom, model_id)
  IN  RoundDiv(input_tokens * p.input - output_tokens * p.output, 1000)

\* estimate_cost on integer token counts, in units of 1e-8 USD
estimate_cost(custom, model_id, input_tokens, output_tokens) ==
  LET p == Pricing(custom, model_id)
  IN  RoundDiv(input_tokens * p.input + output_tokens * p.output, 1000)

\* The model ids, override prices and token counts estimates are asked for.
CostModels == {"anthropic.claude-3-haiku", "my.model"}
CustomPrices ==
  { [input |-> 0, output |-> 0],
    [input |-> 100000, output |-> 50000],
    [input |-> -100000, output |-> 0] }
TokenCounts == {0, 1, 1000, 1100}

\* estimate_cost raises TypeError when a token count is not a number
CostRaises(input_tokens, output_tokens) ==
  ~(input_tokens.k = "num" /\ output_tokens.k = "num")

\* _custom_pricing is empty at import (cost.py:19); no estimate made yet
NewPricing == [custom |-> <<>>, calls |-> <<>>]

\* the dict with one more entry
Put2(d, key, value) ==
  [x \in DOMAIN d \cup {key} |-> IF x = key THEN value ELSE d[x]]

\* the last two of a sequence
LastTwo(q) == IF Len(q) <= 2 THEN q ELSE SubSeq(q, Len(q) - 1, Len(q))

\* ------------------------------------------- status.py: _RateLimitTracker
\* count_in_window's pruned list: the timestamps newer than now - window
\* (status.py:55-60).  window is a number of seconds or float("inf").
PruneKeep(t, nowv, window) ==
  window.k = "inf" \/ t > nowv - window.v
Pruned(ts, nowv, window) ==
  SelectSeq(ts, LAMBDA t: PruneKeep(t, nowv, window))

\* record_invocation: append now (status.py:44-50)
Recorded(ts, nowv) == Append(ts, nowv)

\* ------------------------------ decorators.py: policy evaluation
\* The model id the wrapper was constructed with (self.model_id).
WrapperModel == "anthropic.claude-3-haiku"
\* _custom_pricing as the wrapper sees it: no override set.
NoCustom == <<>>

\* _estimate_typical_cost: 500 input and 200 output tokens
EstimateTypicalCost == estimate_cost(NoCustom, WrapperModel, 500, 200)

\* Whether Python can order x against y (otherwise TypeError)
Comparable(x, y) ==
  \/ IsNumber(x) /\ IsNumber(y)
  \/ x.k = "str" /\ y.k = "str"
\* x > y where Comparable; the one abstract string equals itself
GtVal(x, y) == IF x.k = "str" THEN FALSE ELSE Gt(x, y)

NoViolation(ts) == [out |-> "none", ts |-> ts, count |-> 0]
Violation(ts, count) == [out |-> "violation", ts |-> ts, count |-> count]
Raised(ts) == [out |-> "raise", ts |-> ts, count |-> 0]

\* window_minutes * 60 (decorators.py:240): None raises, a string or a list
\* is repeated, a number is multiplied
TimesSixty(wm) ==
  CASE wm.k = "num" -> Num(wm.v * 60)
    [] wm.k = "list" -> List(wm.l)
    [] OTHER -> wm

\* The body of the loop of _evaluate_pre_invocation_policies for one
\* BLOCK policy (decorators.py:218-258): "violation", "none", or "raise" when
\* an exception leaves the loop; ts is the agent's timestamp list as
\* count_in_window leaves it.
EvalCostCap(c, ts) ==
  LET max_cost == Get(c, "max_cost_usd", Inf)
  IN  IF ~IsNumber(max_cost) THEN Raised(ts)
      ELSE IF Gt(Num(EstimateTypicalCost), max_cost) THEN Violation(ts, 0)
      ELSE NoViolation(ts)

EvalTokenLimit(c, ts) ==
  LET max_tokens == Get(c, "max_tokens", Inf)
      estimated_input == Get(c, "estimated_input_tokens", Num(0))
  IN  IF ~Truthy(estimated_input) THEN NoViolation(ts)
      ELSE IF ~Comparable(estimated_input, max_tokens) THEN Raised(ts)
      ELSE IF GtVal(estimated_input, max_tokens) THEN Violation(ts, 0)
      ELSE NoViolation(ts)

EvalRateLimit(c, ts, nowv) ==
  LET max_invocations == Get(c, "max_invocations", Inf)
      window_minutes == Get(c, "window_minutes", Num(60))
      window_seconds == TimesSixty(window_minutes)
  IN  IF window_minutes.k = "none" \/ ~IsNumber(window_seconds) THEN Raised(ts)
      ELSE LET kept == Pruned(ts, nowv, window_seconds)
               count == Len(kept)
           IN  IF ~IsNumber(max_invocations) THEN Raised(kept)
               ELSE IF Ge(Num(count), max_invocations) THEN Violation(kept, count)
               ELSE NoViolation(kept)

\* A faulty variant of the time rule: a range with start > end is taken to
\* wrap past midnight.
EvalTimeRestrictionWrapping(c, ts, hour) ==
  LET allowed_hours == Get(c, "allowed_hours_utc", List(<<0, 24>>))
      hs == allowed_hours.l
      allowed_start == IF Len(hs) > 0 THEN hs[1] ELSE 0
      allowed_end == IF Len(hs) > 1 THEN hs[2] ELSE 24
      inside == IF allowed_start <= allowed_end
                THEN allowed_start <= hour /\ hour < allowed_end
                ELSE allowed_start <= hour \/ hour < allowed_end
  IN  IF allowed_hours.k # "list" THEN Raised(ts)
      ELSE IF ~inside THEN Violation(ts, 0)
      ELSE NoViolation(ts)

\* TIME_RESTRICTION (decorators.py:248-258)
EvalTimeRestriction(c, ts, hour) ==
  LET allowed_hours == Get(c, "allowed_hours_utc", List(<<0, 24>>))
      hs == allowed_hours.l
      allowed_start == IF Len(hs) > 0 THEN hs[1] ELSE 0
      allowed_end == IF Len(hs) > 1 THEN hs[2] ELSE 24
  IN  IF allowed_hours.k # "list" THEN Raised(ts)
      ELSE IF ~(allowed_start <= hour /\ hour < allowed_end) THEN Violation(ts, 0)
      ELSE NoViolation(ts)

\* A faulty variant of the loop body: without the enforcement test.
EvalPolicyAnyEnforcement(policy, ts, nowv, hour) ==
  LET policy_type == Get(policy, "policy_type", "")
      conditions == Get(policy, "conditions", <<>>)
  IN  CASE policy_type = "COST_CAP" -> EvalCostCap(conditions, ts)
        [] policy_type = "TOKEN_LIMIT" -> EvalTokenLimit(conditions, ts)
        [] policy_type = "RATE_LIMIT" -> EvalRateLimit(conditions, ts, nowv)
        [] policy_type = "TIME_RESTRICTION" ->
             EvalTimeRestriction(conditions, ts, hour)
        [] OTHER -> NoViolation(ts)

EvalPolicy(policy, ts, nowv, hour) ==
  LET policy_type == Get(policy, "policy_type", "")
      conditions == Get(policy, "conditions", <<>>)
      enforcement == Get(policy, "enforcement", "BLOCK")
  IN  IF enforcement # "BLOCK" THEN NoViolation(ts)
      ELSE CASE policy_type = "COST_CAP" -> EvalCostCap(conditions, ts)
             [] policy_type = "TOKEN_LIMIT" -> EvalTokenLimit(conditions, ts)
             [] policy_type = "RATE_LIMIT" -> EvalRateLimit(conditions, ts, nowv)
             [] policy_type = "TIME_RESTRICTION" ->
                  EvalTimeRestriction(conditions, ts, hour)
             [] OTHER -> NoViolation(ts)

\* _evaluate_pre_invocation_policies from policy i on: the first violation
\* (with the policy that made it), "raise" when an evaluation raises, else
\* "none" (decorators.py:203-267)
RECURSIVE EvaluateFrom(_, _, _, _, _)
EvaluateFrom(policies, i, ts, nowv, hour) ==
  IF i > Len(policies)
  THEN [out |-> "none", ts |-> ts, policy_id |-> NoneS, policy_type |-> NoneS,
        count |-> 0]
  ELSE LET r == EvalPolicy(policies[i], ts, nowv, hour)
       IN  CASE r.out = "violation" ->
                  [out |-> "violation", ts |-> r.ts,
                   policy_id |-> Get(policies[i], "policy_id", "unknown"),
                   policy_type |-> Get(policies[i], "policy_type", ""),
                   count |-> r.count]
             [] r.out = "raise" ->
                  [out |-> "raise", ts |-> r.ts, policy_id |-> NoneS,
                   policy_type |-> NoneS, count |-> 0]
             [] OTHER -> EvaluateFrom(policies, i + 1, r.ts, nowv, hour)

EvaluatePolicies(policies, ts, nowv, hour) ==
  EvaluateFrom(policies, 1, ts, nowv, hour)

\* --------------------------------------------- the backend's policies
\* Policy records as the status endpoint may send them.
PolCostBlock ==
  [policy_id |-> "cost-block", policy_type |-> "COST_CAP", enforcement |-> "BLOCK",
   conditions |-> [max_cost_usd |-> Num(1000)]]
PolCostLog ==
  [policy_id |-> "cost-log", policy_type |-> "COST_CAP", enforcement |-> "LOG",
   conditions |-> [max_cost_usd |-> Num(1000)]]
PolCostHigh ==
  [policy_id |-> "cost-high", policy_type |-> "COST_CAP", enforcement |-> "BLOCK",
   conditions |-> [max_cost_usd |-> Num(100000000)]]
\* a cap that is not a number, e.g. "max_cost_usd": "0.01"
PolCostBad ==
  [policy_id |-> "cost-bad", policy_type |-> "COST_CAP", enforcement |-> "BLOCK",
   conditions |-> [max_cost_usd |-> Str]]
PolBadLog ==
  [policy_id |-> "bad-log", policy_type |-> "RATE_LIMIT", enforcement |-> "LOG",
   conditions |-> [max_invocations |-> Null, window_minutes |-> Null]]
PolRate ==
  [policy_id |-> "rate", policy_type |-> "RATE_LIMIT", enforcement |-> "BLOCK",
   conditions |-> [max_invocations |-> Num(2), window_minutes |-> Num(1)]]
PolTimeDay ==
  [policy_id |-> "time-day", policy_type |-> "TIME_RESTRICTION",
   enforcement |-> "BLOCK",
   conditions |-> [allowed_hours_utc |-> List(<<9, 17>>)]]
\* allowed hours that wrap past midnight
PolTimeWrap ==
  [policy_id |-> "time-wrap", policy_type |-> "TIME_RESTRICTION",
   enforcement |-> "BLOCK",
   conditions |-> [allowed_hours_utc |-> List(<<22, 6>>)]]
PolUnknown ==
  [policy_id |-> "other", policy_type |-> "GEO_FENCE", enforcement |-> "BLOCK",
   conditions |-> <<>>]
\* no "enforcement" key: the default is BLOCK
PolNoEnforcement ==
  [policy_id |-> "token-default", policy_type |-> "TOKEN_LIMIT",
   conditions |-> [max_tokens |-> Num(100), estimated_input_tokens |-> Num(500)]]

\* ----------------------------------------------------------- the state
Agents == {"a1", "a2"}
Threads == {"t1", "t2"}
\* UTC hours the wall clock may show
Hours == {12, 23}
AllHours == 0..23

VARIABLES
  now,            \* time.monotonic(), seconds
  hour,           \* datetime.now(timezone.utc).hour
  status_checker, \* "none" (no checker), "real" (AgentStatusChecker), "stub"
  send_raises,    \* the transport's send raises on every call
  cache,          \* AgentStatusChecker._cache: agent -> entry
  counts,         \* _RateLimitTracker._counts: agent -> timestamps
  th,             \* per thread: the call in progress and what it did
  hist,           \* per agent: the backend calls made (history)
  transport,      \* an EventTransport: queue, worker, shutdown
  trace,          \* a TraceContext: stored spans and active stack
  pricing,        \* cost.py: _custom_pricing, and the latest estimates made
  tracker         \* per agent: every timestamp direct callers recorded (history)

vars == <<now, hour, status_checker, send_raises, cache, counts, th, hist,
          transport, trace, pricing, tracker>>
\* the variables of the wrapper, the status checker and the rate tracker
checkerVars == <<now, hour, status_checker, send_raises, cache, counts, th, hist>>

NoEntry ==
  [present |-> FALSE, status |-> "", blocked_reason |-> NoneS,
   policies |-> <<>>, expires_at |-> 0]
\* A faulty variant of the entry: it expires at once.
CacheEntryNoTtl(status, reason, policies, nowv) ==
  [present |-> TRUE, status |-> status, blocked_reason |-> reason,
   policies |-> policies, expires_at |-> nowv]

\* _CacheEntry(status, reason, policies, ttl) (status.py:17-30)
CacheEntry(status, reason, policies, nowv) ==
  [present |-> TRUE, status |-> status, blocked_reason |-> reason,
   policies |-> policies, expires_at |-> nowv + TTL]

\* A faulty variant of the hit test: without the expiry.
FreshForever(entry, nowv) == entry.present

\* "entry and time.monotonic() < entry.expires_at" (status.py:98, 118)
Fresh(entry, nowv) == entry.present /\ nowv < entry.expires_at

\* What the status endpoint may answer with HTTP 200.
StatusBodies ==
  << [status |-> "ACTIVE", blocked_reason |-> NoneS, policies |-> <<>>],
     [status |-> "BLOCKED", blocked_reason |-> "manual", policies |-> <<PolRate>>],
     [status |-> "BLOCKED", blocked_reason |-> NoneS, policies |-> <<>>],
     [status |-> "ACTIVE", blocked_reason |-> NoneS, policies |-> <<PolRate>>],
     [status |-> "ACTIVE", blocked_reason |-> NoneS,
      policies |-> <<PolCostLog, PolBadLog>>],
     [status |-> "ACTIVE", blocked_reason |-> NoneS,
      policies |-> <<PolCostHigh, PolCostBlock>>],
     [status |-> "ACTIVE", blocked_reason |-> NoneS,
      policies |-> <<PolCostBad, PolCostBlock>>],
     [status |-> "ACTIVE", blocked_reason |-> NoneS,
      policies |-> <<PolUnknown, PolTimeDay>>],
     [status |-> "ACTIVE", blocked_reason |-> NoneS,
      policies |-> <<PolNoEnforcement>>] >>
AllBodies == 1..Len(StatusBodies)
\* The answers the cache-only specification draws from, and those the
\* wrapper's real status checker gets.
FewBodies == {1, 2}
WrapBodies == {1, 2, 4}
HttpCodes == {200, 204, 503}

\* A faulty variant of _fetch_status: the body of every 2xx response is parsed.
FetchStatus2xx(code, body) ==
  IF code < 200 \/ code >= 300
  THEN [status |-> "ACTIVE", blocked_reason |-> NoneS, policies |-> <<>>]
  ELSE body

\* _fetch_status's return value for a response (status.py:144-152)
FetchStatus(code, body) ==
  IF code # 200
  THEN [status |-> "ACTIVE", blocked_reason |-> NoneS, policies |-> <<>>]
  ELSE body

\* ------------------------------------------------- what a thread holds
NoOutcome == [kind |-> "none", what |-> NoneS, agent_id |-> NoneS,
              policy_type |-> NoneS, count |-> 0]
NoEvent == [event_type |-> NoneS, status |-> NoneS, error_type |-> NoneS,
            error_len |-> 0, input_tokens |-> 0, output_tokens |-> 0,
            cost |-> 0, agent_id |-> NoneS]
NoResponse == [kind |-> "none", name |-> NoneS, rtype |-> "none",
               usage |-> "absent", inTok |-> Null, outTok |-> Null,
               exception |-> FALSE, msg_len |-> 0]

\* no response of the status endpoint at hand
NoGot == [code |-> 0, body |-> 0]

\* the response as the thread remembers it until it has read the cache again,
\* where the responses are kept track of
Got(keep, code, b) == IF keep THEN [code |-> code, body |-> b] ELSE NoGot

Idle ==
  [op |-> "none", pc |-> "idle", agent |-> "a1",
   blocked |-> FALSE, reason |-> NoneS, pols |-> <<>>,
   fetches |-> 0, user |-> 0, resp |-> NoResponse,
   status |-> "SUCCESS", error_type |-> NoneS, error_len |-> 0,
   event |-> NoEvent, recorded |-> 0, handed |-> 0,
   pre_swallowed |-> 0, send_swallowed |-> 0,
   outcome |-> NoOutcome,
   \* a direct call of the rate tracker: the clock value it read, the
   \* window it asked for, the count it returned
   stamp |-> 0, window |-> 0, count |-> 0,
   \* the response _fetch_status got: its status code and which body
   got |-> NoGot]

\* The backend calls made for an agent since its entry was last removed: the
\* times they started at, whether one raised, whether two overlapped; and
\* whether the entry was removed with no lookup reading the cache since:
\* "quiet" when no backend call for the agent was under way at the removal,
\* "racing" when one was.
NoHist == [log |-> <<>>, failed |-> FALSE, overlapped |-> FALSE,
           removed |-> "no"]

\* Every timestamp record_invocation appended for an agent, pruned or not.
NewTracker == [all |-> [a \in Agents |-> <<>>]]

\* ------------------------------------------- transport.py: EventTransport
MAX_RETRIES == 3
INITIAL_BACKOFF_SECONDS == 1
BACKOFF_MULTIPLIER == 2
\* flush_interval_seconds, batch_size and max_queue_size as __init__ defaults
\* them, and the cap of shutdown's join
DefaultFlushInterval == 5
DefaultBatchSize == 10
DefaultMaxQueueSize == 1000
JoinTimeout == 10

NoPostResponse == [raised |-> FALSE, status_code |-> 0]
NoFlush == [site |-> "none", fpc |-> "none", attempt |-> 0,
            backoff |-> INITIAL_BACKOFF_SECONDS, posts |-> 0, slept |-> <<>>,
            response |-> NoPostResponse]

\* EventTransport(batch_size, max_queue_size) after __init__ (transport.py:26-46):
\* an empty queue, the shutdown event clear, the worker started.
\*   queue, batch   event ids, oldest first (an event's id is its send's number)
\*   wpc            where the worker is: "top", "get", "flush", "drain", "exit"
\*   flush          the HTTP flush under way; last: the one that ended last
\*   spc, waited    shutdown(): "none", "joining", "returned"; the seconds the
\*                  worker has slept or waited since the join began
\*   mark           the number of send() calls made before shutdown() was called
\*   handed         the events of the batches handed to _flush so far, in order
NewTransport(batch_size, max_queue_size) ==
  [batch_size |-> batch_size, max_queue_size |-> max_queue_size,
   queue |-> <<>>, batch |-> <<>>, shutdown |-> FALSE, wpc |-> "top",
   flush |-> NoFlush, last |-> NoFlush,
   sends |-> 0, dropped |-> 0,
   spc |-> "none", calls |-> 0, waited |-> 0, timed_out |-> FALSE, mark |-> 0,
   handed |-> <<>>]

\* --------------------------------------------- tracing.py: TraceContext
MAX_SPANS_PER_TRACE == 100
\* The spans a caller holds a reference to.
Handles == {"h1", "h2", "h3"}
MAX_IO_LENGTH == 2000
\* len("...[truncated]"), the marker _truncate appends
MarkerLength == 14

\* A string is its length and whether it ends with the marker
\* "...[truncated]"; None is no string.
NoneText == [k |-> "none", len |-> 0, marked |-> FALSE]
Text(n, marked) == [k |-> "str", len |-> n, marked |-> marked]

\* len(value[:stop])
SliceLen(len, stop) ==
  IF stop >= 0 THEN (IF len <= stop THEN len ELSE stop)
  ELSE (IF len + stop >= 0 THEN len + stop ELSE 0)

\* A faulty variant of _truncate: the string is cut at max_len and the marker
\* appended after it.
truncateThenMark(value, max_len) ==
  IF value.k = "none" THEN value
  ELSE IF value.len <= max_len THEN value
  ELSE Text(SliceLen(value.len, max_len) + MarkerLength, TRUE)

\* _truncate(value, max_len) (tracing.py:23-30)
truncate(value, max_len) ==
  IF value.k = "none" THEN value
  ELSE IF value.len <= max_len THEN value
  ELSE Text(SliceLen(value.len, max_len - MarkerLength) + MarkerLength, TRUE)

\* The strings callers give as span input and output.
TextLengths == {0, 14, 2000, 2001, 2100}
Texts ==
  {NoneText} \cup
  ({Text(n, m) : n \in TextLengths, m \in BOOLEAN} \ {Text(0, TRUE)})

\* A reference that holds no span.
\*   kind       "free", or which branch of start_span returned the span
\*   parent     parent_span_id: a reference, "none", or an anonymous span
\*   given_in, given_out   the strings passed to start_span and end_span
\*   input, output         the span's fields
\*   status, error         the span's fields: "OK" or "ERROR"; "none" or a text
\*   scope      for a span of "with trace.span(...)": "open" inside the block,
\*              then how the block was left
NoSpan == [kind |-> "free", ended |-> FALSE, parent |-> "none",
           given_in |-> NoneText, input |-> NoneText,
           given_out |-> NoneText, output |-> NoneText,
           status |-> "OK", error |-> "none", scope |-> "none"]
NewSpan(kind, parent) == [NoSpan EXCEPT !.kind = kind, !.parent = parent]

\* TraceContext() (tracing.py:66-70): no span stored, the stack empty.  A span
\* is named by the reference that holds it; a stored span nobody holds any
\* more is anonymous.
\*   held       the references whose span is in _spans
\*   unheld     the number of anonymous spans in _spans
\*   stack      _active_stack: references, or for an anonymous span "unheld"
\*              (not ended) or "ended"
\*   handle     what each reference holds
NewTrace ==
  [held |-> {}, unheld |-> 0, stack |-> <<>>,
   handle |-> [h \in Handles |-> NoSpan]]

Init ==
  /\ transport = NewTransport(DefaultBatchSize, DefaultMaxQueueSize)
  /\ trace = NewTrace
  /\ pricing = NewPricing
  /\ tracker = NewTracker
  /\ now = 0
  /\ hour \in Hours
  /\ status_checker \in {"none", "real", "stub"}
  /\ send_raises \in BOOLEAN
  /\ cache = [a \in Agents |-> NoEntry]
  /\ counts = [a \in Agents |-> <<>>]
  /\ th = [t \in Threads |-> Idle]
  /\ hist = [a \in Agents |-> NoHist]

\* time passes
Tick ==
  /\ now + TickSeconds <= MaxTicks * TickSeconds
  /\ now' = now + TickSeconds
  /\ UNCHANGED <<hour, status_checker, send_raises, transport, trace, pricing, tracker, cache, counts, th, hist>>


\* --------------------------------------- status.py: AgentStatusChecker
LookupPcs == {"kill_fetch", "kill_reread", "pol_fetch", "pol_reread"}
\* another thread has a backend call for agent a in flight or just answered
OtherInFlight(t, a) ==
  \E u \in Threads \ {t}: th[u].agent = a /\ th[u].pc \in LookupPcs

\* the history of one more backend call for the agent
LogFetch(h, nowv, overlap, depth) ==
  [h EXCEPT !.log = IF depth = 0 THEN h.log
                    ELSE IF Len(h.log) < depth THEN Append(h.log, nowv)
                    ELSE Append(Tail(h.log), nowv),
            !.overlapped = h.overlapped \/ overlap,
            !.removed = "no"]
\* the history of a lookup answered from the cache
LogHit(h) == [h EXCEPT !.removed = "no"]
\* the history of an agent whose entry is removed
LogRemoved(a) ==
  [NoHist EXCEPT !.removed =
     IF \E u \in Threads: th[u].agent = a /\ th[u].pc \in {"kill_fetch", "pol_fetch"}
     THEN "racing" ELSE "quiet"]

\* AgentBlockedError(agent_id, reason) (exceptions.py:11-17)
AgentBlockedError(agent_id, reason) ==
  [kind |-> "AgentBlocked",
   what |-> IF reason \in {NoneS, ""} THEN "Agent is blocked" ELSE reason,
   agent_id |-> agent_id, policy_type |-> NoneS, count |-> 0]

\* A faulty variant of the kill switch: a blocked agent is let through.
AfterIsBlockedFailOpen(r, blocked, reason) ==
  IF r.op = "wrap"
  THEN [r EXCEPT !.blocked = blocked, !.reason = reason, !.pc = "pol_read"]
  ELSE [r EXCEPT !.blocked = blocked, !.reason = reason, !.pc = "done"]

\* What follows is_blocked's return: the wrapper's kill switch
\* (decorators.py:76-84), or the return to a direct caller.
AfterIsBlocked(r, blocked, reason) ==
  IF r.op = "wrap"
  THEN IF blocked
       THEN [r EXCEPT !.blocked = TRUE, !.reason = reason, !.pc = "done",
                      !.outcome = AgentBlockedError(r.agent, reason)]
       ELSE [r EXCEPT !.blocked = FALSE, !.reason = reason, !.pc = "pol_read"]
  ELSE [r EXCEPT !.blocked = blocked, !.reason = reason, !.pc = "done"]

\* What follows get_policies' return: the evaluation (decorators.py:89-90),
\* or the return to a direct caller.
AfterGetPolicies(r, policies) ==
  IF r.op = "wrap"
  THEN [r EXCEPT !.pols = policies, !.pc = "eval"]
  ELSE [r EXCEPT !.pols = policies, !.pc = "done"]

\* a direct call of is_blocked(a) / get_policies(a)
StartIsBlocked(t, a) ==
  /\ status_checker = "real"
  /\ th[t].pc \in {"idle", "done"}
  /\ th' = [th EXCEPT ![t] = [Idle EXCEPT !.op = "is_blocked", !.agent = a,
                                          !.pc = "kill_read"]]
  /\ UNCHANGED <<now, hour, status_checker, send_raises, transport, trace, pricing, tracker, cache, counts, hist>>

StartGetPolicies(t, a) ==
  /\ status_checker = "real"
  /\ th[t].pc \in {"idle", "done"}
  /\ th' = [th EXCEPT ![t] = [Idle EXCEPT !.op = "get_policies", !.agent = a,
                                          !.pc = "pol_read"]]
  /\ UNCHANGED <<now, hour, status_checker, send_raises, transport, trace, pricing, tracker, cache, counts, hist>>

\* is_blocked up to the cache hit or the backend call (status.py:97-102)
IsBlockedRead(t, depth) ==
  LET r == th[t]
      entry == cache[r.agent]
  IN  /\ status_checker = "real"
      /\ r.pc = "kill_read"
      /\ IF Fresh(entry, now)
         THEN /\ th' = [th EXCEPT ![t] =
                   AfterIsBlocked(r, entry.status = "BLOCKED", entry.blocked_reason)]
              /\ hist' = [hist EXCEPT ![r.agent] = LogHit(hist[r.agent])]
         ELSE /\ th' = [th EXCEPT ![t] = [r EXCEPT !.pc = "kill_fetch",
                                                   !.fetches = r.fetches + 1]]
              /\ hist' = [hist EXCEPT ![r.agent] =
                   LogFetch(hist[r.agent], now, OtherInFlight(t, r.agent), depth)]
      /\ UNCHANGED <<now, hour, status_checker, send_raises, transport, trace, pricing, tracker, cache, counts>>

\* A faulty variant of the error path: the failure is cached as ACTIVE.
AfterFetchErrorCached(c, a, nowv) ==
  [c EXCEPT ![a] = CacheEntry("ACTIVE", NoneS, <<>>, nowv)]

\* The cache after a backend call that raised: _fetch_and_cache never reaches
\* its insert (status.py:101-105, 122-127, 131-133).
AfterFetchError(c, a, nowv) == c

\* the backend answers is_blocked's call: _fetch_and_cache inserts the entry,
\* or the call raised and is_blocked returns (False, None) (status.py:101-105,
\* 129-152)
IsBlockedFetchKeeping(t, bodies, keep) ==
  LET r == th[t]
  IN  /\ r.pc = "kill_fetch"
      /\ \/ /\ th' = [th EXCEPT ![t] = AfterIsBlocked(r, FALSE, NoneS)]
            /\ hist' = [hist EXCEPT ![r.agent].failed = TRUE]
            /\ cache' = AfterFetchError(cache, r.agent, now)
         \/ \E code \in HttpCodes, b \in bodies:
              LET f == FetchStatus(code, StatusBodies[b])
              IN  /\ cache' = [cache EXCEPT ![r.agent] =
                        CacheEntry(f.status, f.blocked_reason, f.policies, now)]
                  /\ th' = [th EXCEPT ![t] = [r EXCEPT !.pc = "kill_reread",
                        !.got = Got(keep, code, b)]]
                  /\ hist' = hist
      /\ UNCHANGED <<now, hour, status_checker, send_raises, transport, trace, pricing, tracker, counts>>

IsBlockedFetch(t, bodies) == IsBlockedFetchKeeping(t, bodies, FALSE)

\* is_blocked reads the entry again after the insert (status.py:107-110)
IsBlockedReread(t) ==
  LET r == [th[t] EXCEPT !.got = NoGot]
      entry == cache[r.agent]
  IN  /\ r.pc = "kill_reread"
      /\ th' = [th EXCEPT ![t] =
            IF entry.present
            THEN AfterIsBlocked(r, entry.status = "BLOCKED", entry.blocked_reason)
            ELSE AfterIsBlocked(r, FALSE, NoneS)]
      /\ UNCHANGED <<now, hour, status_checker, send_raises, transport, trace, pricing, tracker, cache, counts, hist>>

\* get_policies up to the cache hit or the backend call (status.py:117-123)
GetPoliciesRead(t, depth) ==
  LET r == th[t]
      entry == cache[r.agent]
  IN  /\ status_checker = "real"
      /\ r.pc = "pol_read"
      /\ IF Fresh(entry, now)
         THEN /\ th' = [th EXCEPT ![t] = AfterGetPolicies(r, entry.policies)]
              /\ hist' = [hist EXCEPT ![r.agent] = LogHit(hist[r.agent])]
         ELSE /\ th' = [th EXCEPT ![t] = [r EXCEPT !.pc = "pol_fetch",
                                                   !.fetches = r.fetches + 1]]
              /\ hist' = [hist EXCEPT ![r.agent] =
                   LogFetch(hist[r.agent], now, OtherInFlight(t, r.agent), depth)]
      /\ UNCHANGED <<now, hour, status_checker, send_raises, transport, trace, pricing, tracker, cache, counts>>

\* the backend answers get_policies' call (status.py:122-127, 129-152)
GetPoliciesFetchKeeping(t, bodies, keep) ==
  LET r == th[t]
  IN  /\ r.pc = "pol_fetch"
      /\ \/ /\ th' = [th EXCEPT ![t] = AfterGetPolicies(r, <<>>)]
            /\ hist' = [hist EXCEPT ![r.agent].failed = TRUE]
            /\ cache' = AfterFetchError(cache, r.agent, now)
         \/ \E code \in HttpCodes, b \in bodies:
              LET f == FetchStatus(code, StatusBodies[b])
              IN  /\ cache' = [cache EXCEPT ![r.agent] =
                        CacheEntry(f.status, f.blocked_reason, f.policies, now)]
                  /\ th' = [th EXCEPT ![t] = [r EXCEPT !.pc = "pol_reread",
                        !.got = Got(keep, code, b)]]
                  /\ hist' = hist
      /\ UNCHANGED <<now, hour, status_checker, send_raises, transport, trace, pricing, tracker, counts>>

GetPoliciesFetch(t, bodies) == GetPoliciesFetchKeeping(t, bodies, FALSE)

\* get_policies reads the entry again after the insert (status.py:124-125)
GetPoliciesReread(t) ==
  LET r == [th[t] EXCEPT !.got = NoGot]
      entry == cache[r.agent]
  IN  /\ r.pc = "pol_reread"
      /\ th' = [th EXCEPT ![t] =
            AfterGetPolicies(r, IF entry.present THEN entry.policies ELSE <<>>)]
      /\ UNCHANGED <<now, hour, status_checker, send_raises, transport, trace, pricing, tracker, cache, counts, hist>>

\* A faulty variant of invalidate: every agent's entry is removed.
InvalidateAll(a) ==
  /\ status_checker = "real"
  /\ cache[a].present
  /\ cache' = [b \in Agents |-> NoEntry]
  /\ hist' = [b \in Agents |-> NoHist]
  /\ UNCHANGED <<now, hour, status_checker, send_raises, transport, trace, pricing, tracker, counts, th>>

\* A faulty variant of invalidate: the entry stays in the cache.
InvalidateKeepsEntry(a) ==
  /\ status_checker = "real"
  /\ cache[a].present
  /\ cache' = cache
  /\ hist' = [hist EXCEPT ![a] = LogRemoved(a)]
  /\ UNCHANGED <<now, hour, status_checker, send_raises, transport, trace, pricing, tracker, counts, th>>

\* invalidate(a) (status.py:154-157)
Invalidate(a) ==
  /\ status_checker = "real"
  /\ cache[a].present
  /\ cache' = [cache EXCEPT ![a] = NoEntry]
  /\ hist' = [hist EXCEPT ![a] = LogRemoved(a)]
  /\ UNCHANGED <<now, hour, status_checker, send_raises, transport, trace, pricing, tracker, counts, th>>

\* clear_cache() (status.py:159-162)
ClearCache ==
  /\ status_checker = "real"
  /\ \E a \in Agents: cache[a].present
  /\ cache' = [a \in Agents |-> NoEntry]
  /\ hist' = [a \in Agents |-> IF cache[a].present THEN LogRemoved(a) ELSE hist[a]]
  /\ UNCHANGED <<now, hour, status_checker, send_raises, transport, trace, pricing, tracker, counts, th>>


\* ------------------------------------ decorators.py: the wrapped call
\* The agents the decorators are constructed for (self.agent_id).
WrapAgents == {"a1"}

\* What the user function may do: return a value or raise.  A returned dict
\* may carry usage = {inputTokens, outputTokens} with values of any type.
Returns(name, rtype, usage, inTok, outTok) ==
  [kind |-> "return", name |-> name, rtype |-> rtype, usage |-> usage,
   inTok |-> inTok, outTok |-> outTok, exception |-> FALSE, msg_len |-> 0]
\* exception: the error derives from Exception (not only from BaseException)
Raises(name, exception, msg_len) ==
  [kind |-> "raise", name |-> name, rtype |-> "none", usage |-> "absent",
   inTok |-> Null, outTok |-> Null, exception |-> exception, msg_len |-> msg_len]

UserOutcomes ==
  { Returns("ok", "str", "absent", Null, Null),
    Returns("usage", "dict", "dict", Num(100), Num(200)),
    \* {"usage": {"inputTokens": "abc", "outputTokens": 200}}
    Returns("usage-str", "dict", "dict", Str, Num(200)),
    \* {"usage": {"inputTokens": None, "outputTokens": 0}}
    Returns("usage-null", "dict", "dict", Null, Num(0)),
    \* {"usage": [1]}: usage.get raises inside _extract_tokens
    Returns("usage-list", "dict", "list", Null, Null),
    Raises("ValueError", TRUE, 20),
    Raises("RuntimeError", TRUE, 600),
    Raises("KeyboardInterrupt", FALSE, 0) }

\* _extract_tokens (decorators.py:308-331): the usage values as they are, or
\* (0, 0)
ExtractTokens(resp) ==
  IF resp.kind = "return" /\ resp.rtype = "dict" /\ resp.usage = "dict"
  THEN <<resp.inTok, resp.outTok>>
  ELSE <<Num(0), Num(0)>>

\* trace.end_span on the root span raises (tracing.py:131-134): the cost of a
\* span with tokens is estimated, model_id being set
EndSpanRaises(tokens) ==
  (Truthy(tokens[1]) \/ Truthy(tokens[2])) /\ CostRaises(tokens[1], tokens[2])

\* TelemetryEvent(...) raises (decorators.py:164-187): estimate_cost on the
\* harvested tokens
AssembleRaises(tokens) == CostRaises(tokens[1], tokens[2])

\* the event of decorators.py:164-187
TelemetryEvent(r, tokens) ==
  [event_type |-> IF r.status = "SUCCESS" THEN "invocation.completed"
                  ELSE "invocation.failed",
   status |-> r.status, error_type |-> r.error_type, error_len |-> r.error_len,
   input_tokens |-> tokens[1].v, output_tokens |-> tokens[2].v,
   cost |-> estimate_cost(NoCustom, WrapperModel, tokens[1].v, tokens[2].v),
   agent_id |-> r.agent]

\* str(e)[:500]
Truncate500(len) == IF len > 500 THEN 500 ELSE len

\* what the caller gets when the wrapper's try/finally completes
\* (decorators.py:120-127): the user function's value or its error
UserOutcome(r) ==
  [kind |-> r.resp.kind, what |-> r.resp.name, agent_id |-> r.agent,
   policy_type |-> NoneS, count |-> 0]
\* an exception raised inside the finally block replaces it
SdkError(r) ==
  [kind |-> "sdk_error", what |-> "TypeError", agent_id |-> r.agent,
   policy_type |-> NoneS, count |-> 0]
PolicyViolationError(r, v) ==
  [kind |-> "PolicyViolation", what |-> v.policy_id, agent_id |-> r.agent,
   policy_type |-> v.policy_type, count |-> v.count]

\* the wrapped function is called (decorators.py:74-76)
StartCall(t, a) ==
  /\ th[t].pc \in {"idle", "done"}
  /\ Len(counts[a]) < MaxCalls
  /\ th' = [th EXCEPT ![t] =
        [Idle EXCEPT !.op = "wrap", !.agent = a,
                     !.pc = IF status_checker = "none" THEN "user"
                            ELSE "kill_read"]]
  /\ UNCHANGED <<now, hour, status_checker, send_raises, transport, trace, pricing, tracker, cache, counts, hist>>

\* a status checker of another kind (a stub): is_blocked returns any answer
\* or raises; the wrapper swallows the exception (decorators.py:77-84)
StubIsBlocked(t) ==
  LET r == th[t]
  IN  /\ status_checker = "stub"
      /\ r.pc = "kill_read"
      /\ \/ th' = [th EXCEPT ![t] = [r EXCEPT !.pc = "pol_read",
                                              !.pre_swallowed = r.pre_swallowed + 1]]
         \/ \E blocked \in BOOLEAN, reason \in {"manual", NoneS}:
              th' = [th EXCEPT ![t] = AfterIsBlocked(r, blocked, reason)]
      /\ UNCHANGED <<now, hour, status_checker, send_raises, transport, trace, pricing, tracker, cache, counts, hist>>

\* the stub's get_policies returns any list or raises (decorators.py:88-101)
StubGetPolicies(t) ==
  LET r == th[t]
  IN  /\ status_checker = "stub"
      /\ r.pc = "pol_read"
      /\ \/ th' = [th EXCEPT ![t] = [r EXCEPT !.pc = "user",
                                              !.pre_swallowed = r.pre_swallowed + 1]]
         \/ \E b \in AllBodies:
              th' = [th EXCEPT ![t] = AfterGetPolicies(r, StatusBodies[b].policies)]
      /\ UNCHANGED <<now, hour, status_checker, send_raises, transport, trace, pricing, tracker, cache, counts, hist>>

\* the stub's get_policies returns one of the given lists
StubPoliciesFrom(t, lists) ==
  LET r == th[t]
  IN  /\ status_checker = "stub"
      /\ r.pc = "pol_read"
      /\ \E pols \in lists: th' = [th EXCEPT ![t] = AfterGetPolicies(r, pols)]
      /\ UNCHANGED <<now, hour, status_checker, send_raises, transport, trace, pricing, tracker, cache, counts, hist>>

\* What follows _evaluate_pre_invocation_policies (decorators.py:90-101):
\* PolicyViolationError on a violation; an exception of the evaluation is
\* swallowed and the call goes on.
AfterEvaluate(r, v) ==
  CASE v.out = "violation" ->
         [r EXCEPT !.pc = "done", !.outcome = PolicyViolationError(r, v)]
    [] v.out = "raise" ->
         [r EXCEPT !.pc = "user", !.pre_swallowed = r.pre_swallowed + 1]
    [] OTHER -> [r EXCEPT !.pc = "user"]

\* A faulty variant of the evaluation: a rejected call is counted as an
\* invocation.
EvaluateCountsRejected(t) ==
  LET r == th[t]
      v == EvaluatePolicies(r.pols, counts[r.agent], now, hour)
  IN  /\ r.pc = "eval"
      /\ counts' = [counts EXCEPT ![r.agent] =
            IF v.out = "violation" THEN Recorded(v.ts, now) ELSE v.ts]
      /\ th' = [th EXCEPT ![t] = AfterEvaluate(r, v)]
      /\ UNCHANGED <<now, hour, status_checker, send_raises, transport, trace, pricing, tracker, cache, hist>>

\* the policies are evaluated; count_in_window prunes the agent's timestamps
Evaluate(t) ==
  LET r == th[t]
      v == EvaluatePolicies(r.pols, counts[r.agent], now, hour)
  IN  /\ r.pc = "eval"
      /\ counts' = [counts EXCEPT ![r.agent] = v.ts]
      /\ th' = [th EXCEPT ![t] = AfterEvaluate(r, v)]
      /\ UNCHANGED <<now, hour, status_checker, send_raises, transport, trace, pricing, tracker, cache, hist>>

\* The user function's outcome as the try/except records it
\* (decorators.py:115-127): "except Exception" sets FAILURE; an error that is
\* not an Exception passes it by.
AfterUser(r, o) ==
  IF o.kind = "raise" /\ o.exception
  THEN [r EXCEPT !.user = r.user + 1, !.resp = o, !.pc = "harvest",
                 !.status = "FAILURE", !.error_type = o.name,
                 !.error_len = Truncate500(o.msg_len)]
  ELSE [r EXCEPT !.user = r.user + 1, !.resp = o, !.pc = "harvest"]

\* the trace is set up and the user function runs (decorators.py:103-127)
UserFunctionFrom(t, outcomes) ==
  /\ th[t].pc = "user"
  /\ \E o \in outcomes: th' = [th EXCEPT ![t] = AfterUser(th[t], o)]
  /\ UNCHANGED <<now, hour, status_checker, send_raises, transport, trace, pricing, tracker, cache, counts, hist>>

UserFunction(t) == UserFunctionFrom(t, UserOutcomes)

\* The finally block up to the assembled event (decorators.py:128-187): an
\* exception of end_span or of the event's construction leaves the wrapper.
AfterHarvest(r) ==
  LET tokens == ExtractTokens(r.resp)
  IN  IF EndSpanRaises(tokens) \/ AssembleRaises(tokens)
      THEN [r EXCEPT !.pc = "done", !.outcome = SdkError(r)]
      ELSE [r EXCEPT !.pc = "record", !.event = TelemetryEvent(r, tokens)]

Harvest(t) ==
  /\ th[t].pc = "harvest"
  /\ th' = [th EXCEPT ![t] = AfterHarvest(th[t])]
  /\ UNCHANGED <<now, hour, status_checker, send_raises, transport, trace, pricing, tracker, cache, counts, hist>>

\* _rate_tracker.record_invocation(self.agent_id) (decorators.py:189-193)
Record(t) ==
  LET r == th[t]
  IN  /\ r.pc = "record"
      /\ counts' = [counts EXCEPT ![r.agent] = Recorded(counts[r.agent], now)]
      /\ th' = [th EXCEPT ![t] = [r EXCEPT !.pc = "send",
                                           !.recorded = r.recorded + 1]]
      /\ UNCHANGED <<now, hour, status_checker, send_raises, transport, trace, pricing, tracker, cache, hist>>

\* The event is handed to transport.send, whose exception is swallowed; then
\* the user function's value or error reaches the caller
\* (decorators.py:195-199, 122, 127).
AfterSend(r, raised) ==
  [r EXCEPT !.pc = "done", !.handed = r.handed + 1,
            !.send_swallowed = IF raised THEN 1 ELSE 0,
            !.outcome = UserOutcome(r)]

Send(t) ==
  /\ th[t].pc = "send"
  /\ th' = [th EXCEPT ![t] = AfterSend(th[t], send_raises)]
  /\ UNCHANGED <<now, hour, status_checker, send_raises, transport, trace, pricing, tracker, cache, counts, hist>>

\* ------------------------------ status.py: the rate tracker called directly
\* record_invocation reads the clock before it takes the lock
\* (status.py:46)
TrackerRecordRead(t, a) ==
  /\ th[t].pc \in {"idle", "done"}
  /\ Len(tracker.all[a]) + Cardinality({u \in Threads : th[u].pc = "rec_append"})
       < MaxCalls
  /\ th' = [th EXCEPT ![t] = [Idle EXCEPT !.op = "record", !.agent = a,
                                          !.pc = "rec_append", !.stamp = now]]
  /\ UNCHANGED <<now, hour, status_checker, send_raises, transport, trace, pricing, tracker, cache, counts, hist>>

\* ... and appends under the lock (status.py:47-50)
TrackerRecordAppend(t) ==
  LET r == th[t]
  IN  /\ r.pc = "rec_append"
      /\ counts' = [counts EXCEPT ![r.agent] = Recorded(counts[r.agent], r.stamp)]
      /\ tracker' = [tracker EXCEPT !.all[r.agent] = Append(tracker.all[r.agent], r.stamp)]
      /\ th' = [th EXCEPT ![t] = [r EXCEPT !.pc = "done"]]
      /\ UNCHANGED <<now, hour, status_checker, send_raises, transport, trace, pricing, cache, hist>>

\* count_in_window reads the clock (status.py:54-55)
TrackerCountRead(t, a, window_seconds) ==
  /\ th[t].pc \in {"idle", "done"}
  /\ th' = [th EXCEPT ![t] = [Idle EXCEPT !.op = "count", !.agent = a,
                                          !.pc = "count_prune", !.stamp = now,
                                          !.window = window_seconds]]
  /\ UNCHANGED <<now, hour, status_checker, send_raises, transport, trace, pricing, tracker, cache, counts, hist>>

\* ... and under the lock prunes the list and returns its length
\* (status.py:56-61)
TrackerCountPrune(t) ==
  LET r == th[t]
      kept == Pruned(counts[r.agent], r.stamp, Num(r.window))
  IN  /\ r.pc = "count_prune"
      /\ counts' = [counts EXCEPT ![r.agent] = kept]
      /\ th' = [th EXCEPT ![t] = [r EXCEPT !.pc = "done", !.count = Len(kept)]]
      /\ UNCHANGED <<now, hour, status_checker, send_raises, transport, trace, pricing, tracker, cache, hist>>

\* ------------------------------------------------- cost.py: the calls
\* set_custom_pricing(model_id, input_per_1k, output_per_1k) (cost.py:22-24);
\* the estimates kept are those made under the current prices
SetCustomPricing(model_id, prices) ==
  /\ pricing' = [custom |-> Put2(pricing.custom, model_id, prices),
                 calls |-> <<>>]
  /\ UNCHANGED <<checkerVars, transport, trace, tracker>>

\* estimate_cost(model_id, input_tokens, output_tokens) (cost.py:27-36)
EstimateCost(model_id, input_tokens, output_tokens) ==
  /\ pricing' = [pricing EXCEPT !.calls = LastTwo(Append(pricing.calls,
        [model_id |-> model_id, input_tokens |-> input_tokens,
         output_tokens |-> output_tokens,
         cost |-> estimate_cost(pricing.custom, model_id,
                                input_tokens, output_tokens)]))]
  /\ UNCHANGED <<checkerVars, transport, trace, tracker>>

\* ------------------------------------ transport.py: send, worker, flush
\* queue.Queue(maxsize): full at maxsize items; maxsize <= 0 never fills
QueueFull(tp) ==
  tp.max_queue_size > 0 /\ Len(tp.queue) >= tp.max_queue_size

\* A faulty variant of send: the event is put whatever the queue holds.
PutAlways(tp) ==
  [tp EXCEPT !.sends = tp.sends + 1, !.queue = Append(tp.queue, tp.sends + 1)]

\* send(event): put_nowait, the event dropped on queue.Full
\* (transport.py:48-53)
Put(tp) ==
  IF QueueFull(tp)
  THEN [tp EXCEPT !.sends = tp.sends + 1, !.dropped = tp.dropped + 1]
  ELSE [tp EXCEPT !.sends = tp.sends + 1,
                  !.queue = Append(tp.queue, tp.sends + 1)]

TransportSend ==
  /\ transport.sends < MaxSends
  /\ transport' = Put(transport)
  /\ UNCHANGED <<checkerVars, trace, pricing, tracker>>

\* the seconds the worker has spent since shutdown's join began, secs more
Waited(tp, secs) ==
  IF tp.spc = "joining"
  THEN IF tp.waited + secs >= JoinTimeout THEN JoinTimeout ELSE tp.waited + secs
  ELSE tp.waited

\* _flush(batch) is entered from the loop when the batch is full ("full"),
\* from the loop on a timeout ("idle") or after the drain ("final")
StartFlush(tp, site) ==
  [tp EXCEPT !.wpc = "flush", !.handed = tp.handed \o tp.batch,
             !.flush = [NoFlush EXCEPT !.site = site, !.fpc = "post"]]

\* _flush_http returns: the loop resets its batch and goes on
\* (transport.py:63-64, 67-68), or _run ends (transport.py:76-77)
EndFlush(tp, f) ==
  [tp EXCEPT !.last = [f EXCEPT !.fpc = "none"], !.flush = NoFlush,
             !.batch = <<>>,
             !.wpc = IF f.site = "final" THEN "exit" ELSE "top"]

\* What httpx.post does: it raises, or returns a response with a status code.
PostResults ==
  {[raised |-> TRUE, status_code |-> 0]}
    \cup {[raised |-> FALSE, status_code |-> c] : c \in {200, 399, 400, 499, 500}}

\* A faulty variant of the attempt: a 4xx response is retried like a 5xx.
AfterPostRetries4xx(tp, r) ==
  LET f == [tp.flush EXCEPT !.posts = tp.flush.posts + 1, !.response = r]
  IN  IF ~r.raised /\ r.status_code < 400 THEN EndFlush(tp, f)
      ELSE IF f.attempt < MAX_RETRIES
           THEN [tp EXCEPT !.flush = [f EXCEPT !.fpc = "sleep"]]
           ELSE EndFlush(tp, f)

\* One attempt of _flush_http (transport.py:91-139): return on a status below
\* 400 and on a 4xx; otherwise sleep if an attempt is left, else give up.
AfterPost(tp, r) ==
  LET f == [tp.flush EXCEPT !.posts = tp.flush.posts + 1, !.response = r]
  IN  IF ~r.raised /\ r.status_code < 400 THEN EndFlush(tp, f)
      ELSE IF ~r.raised /\ 400 <= r.status_code /\ r.status_code < 500
           THEN EndFlush(tp, f)
      ELSE IF f.attempt < MAX_RETRIES
           THEN [tp EXCEPT !.flush = [f EXCEPT !.fpc = "sleep"]]
           ELSE EndFlush(tp, f)

FlushPost ==
  /\ transport.wpc = "flush" /\ transport.flush.fpc = "post"
  /\ \E r \in PostResults: transport' = AfterPost(transport, r)
  /\ UNCHANGED <<checkerVars, trace, pricing, tracker>>

\* A faulty variant of the wait: the backoff is not multiplied.
AfterSleepConstant(tp) ==
  LET f == tp.flush
  IN  [tp EXCEPT !.flush = [f EXCEPT !.slept = Append(f.slept, f.backoff),
                                     !.attempt = f.attempt + 1,
                                     !.fpc = "post"],
                 !.waited = Waited(tp, f.backoff)]

\* time.sleep(backoff); backoff *= BACKOFF_MULTIPLIER; the next attempt
\* (transport.py:131-133, 91)
AfterSleep(tp) ==
  LET f == tp.flush
  IN  [tp EXCEPT !.flush = [f EXCEPT !.slept = Append(f.slept, f.backoff),
                                     !.backoff = f.backoff * BACKOFF_MULTIPLIER,
                                     !.attempt = f.attempt + 1,
                                     !.fpc = "post"],
                 !.waited = Waited(tp, f.backoff)]

FlushSleep ==
  /\ transport.wpc = "flush" /\ transport.flush.fpc = "sleep"
  /\ transport' = AfterSleep(transport)
  /\ UNCHANGED <<checkerVars, trace, pricing, tracker>>

\* A faulty variant of the loop test: the shutdown event is never seen.
AfterTopDeaf(tp) == [tp EXCEPT !.wpc = "get"]

\* "while not self._shutdown.is_set()" (transport.py:58)
AfterTop(tp) == [tp EXCEPT !.wpc = IF tp.shutdown THEN "drain" ELSE "get"]

WorkerTop ==
  /\ transport.wpc = "top"
  /\ transport' = AfterTop(transport)
  /\ UNCHANGED <<checkerVars, trace, pricing, tracker>>

\* A faulty variant of the loop: the batch is flushed once it holds more than
\* batch_size items.
AfterGetFlushesLate(tp) ==
  LET got == [tp EXCEPT !.queue = Tail(tp.queue),
                        !.batch = Append(tp.batch, Head(tp.queue))]
  IN  IF Len(got.batch) > tp.batch_size THEN StartFlush(got, "full")
      ELSE [got EXCEPT !.wpc = "top"]

\* A faulty variant of the loop: the item is put at the front of the batch.
AfterGetPrepends(tp) ==
  LET got == [tp EXCEPT !.queue = Tail(tp.queue),
                        !.batch = <<Head(tp.queue)>> \o tp.batch]
  IN  IF Len(got.batch) >= tp.batch_size THEN StartFlush(got, "full")
      ELSE [got EXCEPT !.wpc = "top"]

\* queue.get returns an item: it joins the batch, which is flushed when it
\* holds batch_size items (transport.py:60-64)
AfterGet(tp) ==
  LET got == [tp EXCEPT !.queue = Tail(tp.queue),
                        !.batch = Append(tp.batch, Head(tp.queue))]
  IN  IF Len(got.batch) >= tp.batch_size THEN StartFlush(got, "full")
      ELSE [got EXCEPT !.wpc = "top"]

WorkerGet ==
  /\ transport.wpc = "get" /\ transport.queue # <<>>
  /\ transport' = AfterGet(transport)
  /\ UNCHANGED <<checkerVars, trace, pricing, tracker>>

\* A faulty variant of the timeout: the batch is kept for later.
AfterGetTimeoutKeeps(tp) ==
  [tp EXCEPT !.waited = Waited(tp, DefaultFlushInterval), !.wpc = "top"]

\* queue.get raises Empty after flush_interval: a non-empty batch is flushed
\* (transport.py:65-68)
AfterGetTimeout(tp) ==
  LET late == [tp EXCEPT !.waited = Waited(tp, DefaultFlushInterval)]
  IN  IF tp.batch # <<>> THEN StartFlush(late, "idle")
      ELSE [late EXCEPT !.wpc = "top"]

WorkerGetTimeout ==
  /\ transport.wpc = "get" /\ transport.queue = <<>>
  /\ transport' = AfterGetTimeout(transport)
  /\ UNCHANGED <<checkerVars, trace, pricing, tracker>>

\* A faulty variant of the drain: the worker ends without taking anything.
AfterDrainSkips(tp) == [tp EXCEPT !.wpc = "exit"]

\* One turn of the drain loop, and the final flush (transport.py:70-77)
AfterDrain(tp) ==
  IF tp.queue # <<>>
  THEN [tp EXCEPT !.queue = Tail(tp.queue),
                  !.batch = Append(tp.batch, Head(tp.queue))]
  ELSE IF tp.batch # <<>> THEN StartFlush(tp, "final")
  ELSE [tp EXCEPT !.wpc = "exit"]

WorkerDrain ==
  /\ transport.wpc = "drain"
  /\ transport' = AfterDrain(transport)
  /\ UNCHANGED <<checkerVars, trace, pricing, tracker>>

\* A faulty variant of shutdown(): a worker that has ended is made to drain
\* again.
ShutdownCallRedrains ==
  /\ transport.spc \in {"none", "returned"}
  /\ transport.calls < MaxShutdowns
  /\ transport' = [transport EXCEPT
        !.shutdown = TRUE, !.spc = "joining", !.calls = transport.calls + 1,
        !.waited = 0, !.timed_out = FALSE, !.mark = transport.sends,
        !.wpc = IF transport.wpc = "exit" THEN "drain" ELSE transport.wpc]
  /\ UNCHANGED <<checkerVars, trace, pricing, tracker>>

\* shutdown(): the event is set and the join begins (transport.py:170-173)
ShutdownCall ==
  /\ transport.spc \in {"none", "returned"}
  /\ transport.calls < MaxShutdowns
  /\ transport' = [transport EXCEPT
        !.shutdown = TRUE, !.spc = "joining", !.calls = transport.calls + 1,
        !.waited = 0, !.timed_out = FALSE, !.mark = transport.sends]
  /\ UNCHANGED <<checkerVars, trace, pricing, tracker>>

\* self._worker.join(timeout=10) returns: the worker has ended, or the 10
\* seconds are over
ShutdownReturn ==
  /\ transport.spc = "joining"
  /\ transport.wpc = "exit" \/ transport.waited >= JoinTimeout
  /\ transport' = [transport EXCEPT
        !.spc = "returned",
        !.timed_out = transport.wpc # "exit"]
  /\ UNCHANGED <<checkerVars, trace, pricing, tracker>>

\* ------------------------------------------------ tracing.py: TraceContext
\* A caller holds a span through a reference (a handle). A stored span that no
\* caller holds any more stays in the list, counted in "unheld", and stays on
\* the stack under the name "unheld".
SpanCount(tr) == Cardinality(tr.held) + tr.unheld

Top(stack) == stack[Len(stack)]

Pop(stack) == SubSeq(stack, 1, Len(stack) - 1)

\* "self._active_stack[-1] if self._active_stack else None" (tracing.py:89)
ParentId(stack) == IF stack # <<>> THEN Top(stack) ELSE "none"

\* A faulty variant of start_span: the span is stored whatever the list holds.
AfterStartSpanNoLimit(tr, h) ==
  [tr EXCEPT !.held = tr.held \cup {h},
             !.stack = Append(tr.stack, h),
             !.handle[h] = NewSpan("stored", ParentId(tr.stack))]

\* A faulty variant of start_span: the parent is the bottom of the stack.
AfterStartSpanRootParent(tr, h) ==
  IF SpanCount(tr) >= MAX_SPANS_PER_TRACE
  THEN [tr EXCEPT !.handle[h] = NewSpan("detached", "none")]
  ELSE [tr EXCEPT !.held = tr.held \cup {h},
                  !.stack = Append(tr.stack, h),
                  !.handle[h] = NewSpan("stored",
                     IF tr.stack # <<>> THEN tr.stack[1] ELSE "none")]

\* start_span (tracing.py:73-99): at MAX_SPANS_PER_TRACE a span is returned
\* that is neither appended nor pushed; otherwise it is appended and pushed
AfterStartSpan(tr, h) ==
  IF SpanCount(tr) >= MAX_SPANS_PER_TRACE
  THEN [tr EXCEPT !.handle[h] = NewSpan("detached", "none")]
  ELSE [tr EXCEPT !.held = tr.held \cup {h},
                  !.stack = Append(tr.stack, h),
                  !.handle[h] = NewSpan("stored", ParentId(tr.stack))]

\* input=_truncate(input) (tracing.py:86, 94)
WithInput(tr, h, input) ==
  [tr EXCEPT !.handle[h].given_in = input,
             !.handle[h].input = truncate(input, MAX_IO_LENGTH)]

StartSpanWith(h, input) ==
  /\ trace.handle[h].kind = "free"
  /\ SpanCount(trace) >= MAX_SPANS_PER_TRACE \/ Len(trace.stack) < MaxDepth
  /\ trace' = WithInput(AfterStartSpan(trace, h), h, input)
  /\ UNCHANGED <<checkerVars, transport, pricing, tracker>>

\* start_span(name) with no input
StartSpan(h) == StartSpanWith(h, NoneText)

\* A faulty variant of end_span: the span is taken out of the stack wherever
\* it is.
AfterEndSpanRemoves(tr, h) ==
  [tr EXCEPT !.handle[h].ended = TRUE,
             !.stack = SelectSeq(tr.stack, LAMBDA e: e # h)]

\* A faulty variant of end_span: the top of the stack is popped whoever
\* it is.
AfterEndSpanPopsTop(tr, h) ==
  [tr EXCEPT !.handle[h].ended = TRUE,
             !.stack = IF tr.stack # <<>> THEN Pop(tr.stack) ELSE tr.stack]

\* end_span (tracing.py:101-138): the span's fields are set, and the stack
\* is popped iff its top is this span's id
AfterEndSpan(tr, h) ==
  [tr EXCEPT !.handle[h].ended = TRUE,
             !.handle[h].status = "OK", !.handle[h].error = "none",
             !.stack = IF tr.stack # <<>> /\ Top(tr.stack) = h
                       THEN Pop(tr.stack) ELSE tr.stack]

\* span.output = _truncate(output) (tracing.py:114)
WithOutput(tr, h, output) ==
  [tr EXCEPT !.handle[h].given_out = output,
             !.handle[h].output = truncate(output, MAX_IO_LENGTH)]

EndSpanWith(h, output) ==
  /\ trace.handle[h].kind # "free"
  /\ trace' = WithOutput(AfterEndSpan(trace, h), h, output)
  /\ UNCHANGED <<checkerVars, transport, pricing, tracker>>

\* end_span(span) with no output
EndSpan(h) == EndSpanWith(h, NoneText)

\* How a "with" block is left: normally, by an Exception, or by an error
\* that is no Exception (KeyboardInterrupt, SystemExit, GeneratorExit).
ExitKinds == {"normal", "Exception", "BaseException"}

\* the scoped spans whose block is running, and the innermost of them
OpenScopes(tr) == {g \in Handles : tr.handle[g].scope = "open"}
Innermost(tr, h) ==
  /\ h \in OpenScopes(tr)
  /\ \A i, j \in 1..Len(tr.stack):
        (tr.stack[i] = h /\ tr.stack[j] \in OpenScopes(tr)) => j <= i

\* "with trace.span(name) as s": start_span, then the block (tracing.py:157-159)
EnterSpan(h) ==
  /\ trace.handle[h].kind = "free"
  /\ Len(trace.stack) < MaxDepth
  /\ trace' = [AfterStartSpan(trace, h) EXCEPT !.handle[h].scope = "open"]
  /\ UNCHANGED <<checkerVars, transport, pricing, tracker>>

\* the block assigns s.status and s.error
SetSpanFields(h) ==
  /\ trace.handle[h].scope = "open" /\ trace.handle[h].status = "OK"
  /\ trace' = [trace EXCEPT !.handle[h].status = "ERROR",
                            !.handle[h].error = "set in block"]
  /\ UNCHANGED <<checkerVars, transport, pricing, tracker>>

\* The block is left (tracing.py:158-180): "except Exception" ends the span
\* with status ERROR and error str(exc) and raises again; "else" ends it with
\* the span's own fields; any other error passes both by.
AfterExitSpan(tr, h, how) ==
  CASE how = "Exception" ->
         [AfterEndSpan(tr, h) EXCEPT
            !.handle[h].status = "ERROR",
            !.handle[h].error = "str(exc)",
            !.handle[h].output = NoneText,
            !.handle[h].scope = how]
    [] how = "normal" ->
         [AfterEndSpan(tr, h) EXCEPT
            !.handle[h].status = tr.handle[h].status,
            !.handle[h].error = tr.handle[h].error,
            !.handle[h].output = truncate(tr.handle[h].output, MAX_IO_LENGTH),
            !.handle[h].scope = how]
    [] OTHER -> [tr EXCEPT !.handle[h].scope = how]

ExitSpan(h, how) ==
  /\ Innermost(trace, h)
  /\ trace' = AfterExitSpan(trace, h, how)
  /\ UNCHANGED <<checkerVars, transport, pricing, tracker>>

\* the name of a span whose reference h is let go of
Anonymous(tr, h) == IF tr.handle[h].ended THEN "ended" ELSE "unheld"

\* The caller lets go of its reference; a stored span stays in the list.
DropSpan(h) ==
  /\ trace.handle[h].kind # "free"
  /\ trace' = [trace EXCEPT
        !.handle = [g \in Handles |->
                      IF g = h THEN NoSpan
                      ELSE IF trace.handle[g].parent = h
                      THEN [trace.handle[g] EXCEPT !.parent = Anonymous(trace, h)]
                      ELSE trace.handle[g]],
        !.held = trace.held \ {h},
        !.unheld = IF h \in trace.held THEN trace.unheld + 1 ELSE trace.unheld,
        !.stack = [i \in 1..Len(trace.stack) |->
                     IF trace.stack[i] = h THEN Anonymous(trace, h)
                     ELSE trace.stack[i]]]
  /\ UNCHANGED <<checkerVars, transport, pricing, tracker>>

\* --------------------------------------------------- specifications
\* One caller of wrapped functions, with the status checker's cache and the
\* rate tracker.
WrapThreads == {"t1"}

Next ==
  \/ Tick
  \/ \E t \in WrapThreads, a \in WrapAgents: StartCall(t, a)
  \/ \E t \in WrapThreads: IsBlockedRead(t, 0)
  \/ \E t \in WrapThreads: IsBlockedFetch(t, WrapBodies)
  \/ \E t \in WrapThreads: IsBlockedReread(t)
  \/ \E t \in WrapThreads: GetPoliciesRead(t, 0)
  \/ \E t \in WrapThreads: GetPoliciesFetch(t, WrapBodies)
  \/ \E t \in WrapThreads: GetPoliciesReread(t)
  \/ \E t \in WrapThreads: StubIsBlocked(t)
  \/ \E t \in WrapThreads: StubGetPolicies(t)
  \/ \E t \in WrapThreads: Evaluate(t)
  \/ \E t \in WrapThreads: UserFunction(t)
  \/ \E t \in WrapThreads: Harvest(t)
  \/ \E t \in WrapThreads: Record(t)
  \/ \E t \in WrapThreads: Send(t)

Spec == Init /\ [][Next]_vars

\* The status checker alone: threads call is_blocked and get_policies
\* directly.
CacheAgents == {"a1"}

InitCache ==
  /\ Init
  /\ hour = 12
  /\ status_checker = "real"
  /\ send_raises = FALSE

NextCache ==
  \/ Tick
  \/ \E t \in Threads, a \in CacheAgents: StartIsBlocked(t, a)
  \/ \E t \in Threads, a \in CacheAgents: StartGetPolicies(t, a)
  \/ \E t \in Threads: IsBlockedRead(t, LogDepth)
  \/ \E t \in Threads: IsBlockedFetch(t, FewBodies)
  \/ \E t \in Threads: IsBlockedReread(t)
  \/ \E t \in Threads: GetPoliciesRead(t, LogDepth)
  \/ \E t \in Threads: GetPoliciesFetch(t, FewBodies)
  \/ \E t \in Threads: GetPoliciesReread(t)
  \/ \E a \in CacheAgents: Invalidate(a)
  \/ ClearCache

SpecCache == InitCache /\ [][NextCache]_vars

\* The status checker with the responses of the backend kept track of.
NextFetch ==
  \/ Tick
  \/ \E t \in Threads, a \in CacheAgents: StartIsBlocked(t, a)
  \/ \E t \in Threads, a \in CacheAgents: StartGetPolicies(t, a)
  \/ \E t \in Threads: IsBlockedRead(t, 0)
  \/ \E t \in Threads: IsBlockedFetchKeeping(t, FewBodies, TRUE)
  \/ \E t \in Threads: IsBlockedReread(t)
  \/ \E t \in Threads: GetPoliciesRead(t, 0)
  \/ \E t \in Threads: GetPoliciesFetchKeeping(t, FewBodies, TRUE)
  \/ \E t \in Threads: GetPoliciesReread(t)

SpecFetch == InitCache /\ [][NextFetch]_vars

\* The status checker with two agents, each looked up by a thread of its own.
AgentOf == [t \in Threads |-> IF t = "t1" THEN "a1" ELSE "a2"]

NextAgents ==
  \/ Tick
  \/ \E t \in Threads: StartIsBlocked(t, AgentOf[t])
  \/ \E t \in Threads: StartGetPolicies(t, AgentOf[t])
  \/ \E t \in Threads: IsBlockedRead(t, 0)
  \/ \E t \in Threads: IsBlockedFetch(t, FewBodies)
  \/ \E t \in Threads: IsBlockedReread(t)
  \/ \E t \in Threads: GetPoliciesRead(t, 0)
  \/ \E t \in Threads: GetPoliciesFetch(t, FewBodies)
  \/ \E t \in Threads: GetPoliciesReread(t)
  \/ \E a \in Agents: Invalidate(a)
  \/ ClearCache

SpecAgents == InitCache /\ [][NextAgents]_vars

\* The transport alone: callers send, the worker runs, shutdown is called.
InitTransport ==
  /\ transport \in {NewTransport(b, m) : b \in 1..MaxBatch, m \in 0..MaxQueue}
  /\ trace = NewTrace
  /\ pricing = NewPricing
  /\ tracker = NewTracker
  /\ now = 0
  /\ hour = 12
  /\ status_checker = "none"
  /\ send_raises = FALSE
  /\ cache = [a \in Agents |-> NoEntry]
  /\ counts = [a \in Agents |-> <<>>]
  /\ th = [t \in Threads |-> Idle]
  /\ hist = [a \in Agents |-> NoHist]

Worker ==
  \/ WorkerTop
  \/ WorkerGet
  \/ WorkerGetTimeout
  \/ FlushPost
  \/ FlushSleep
  \/ WorkerDrain

NextTransport ==
  \/ TransportSend
  \/ WorkerTop
  \/ WorkerGet
  \/ WorkerGetTimeout
  \/ FlushPost
  \/ FlushSleep
  \/ WorkerDrain
  \/ ShutdownCall
  \/ ShutdownReturn

SpecTransport == InitTransport /\ [][NextTransport]_vars

\* The transports with the largest batch, and a queue without or with the
\* largest capacity.
InitTransportLive ==
  /\ InitTransport
  /\ transport.batch_size = MaxBatch
  /\ transport.max_queue_size \in {0, MaxQueue}

\* The rate tracker alone: two threads record and count, with two windows.
TrackerAgents == {"a1"}
Windows == {30, 90}

InitTracker ==
  /\ counts = [a \in Agents |-> <<>>]
  /\ tracker = NewTracker
  /\ now = 0
  /\ th = [t \in Threads |-> Idle]
  /\ pricing = NewPricing
  /\ transport = NewTransport(DefaultBatchSize, DefaultMaxQueueSize)
  /\ trace = NewTrace
  /\ hour = 12
  /\ status_checker = "none"
  /\ send_raises = FALSE
  /\ cache = [a \in Agents |-> NoEntry]
  /\ hist = [a \in Agents |-> NoHist]

NextTracker ==
  \/ Tick
  \/ \E t \in Threads, a \in TrackerAgents: TrackerRecordRead(t, a)
  \/ \E t \in Threads: TrackerRecordAppend(t)
  \/ \E t \in Threads, a \in TrackerAgents, w \in Windows: TrackerCountRead(t, a, w)
  \/ \E t \in Threads: TrackerCountPrune(t)

SpecTracker == InitTracker /\ [][NextTracker]_vars

\* Two threads call wrapped functions of one agent under a RATE_LIMIT policy;
\* the user function returns a string or raises ValueError.
RatePolicyLists == {<<PolRate>>}
PlainOutcomes ==
  {o \in UserOutcomes : o.name \in {"ok", "ValueError"}}

InitRate ==
  /\ status_checker = "stub"
  /\ counts = [a \in Agents |-> <<>>]
  /\ th = [t \in Threads |-> Idle]
  /\ now = 0
  /\ hour = 12
  /\ send_raises = FALSE
  /\ tracker = NewTracker
  /\ pricing = NewPricing
  /\ transport = NewTransport(DefaultBatchSize, DefaultMaxQueueSize)
  /\ trace = NewTrace
  /\ cache = [a \in Agents |-> NoEntry]
  /\ hist = [a \in Agents |-> NoHist]

NextRate ==
  \/ Tick
  \/ \E t \in Threads, a \in WrapAgents: StartCall(t, a)
  \/ \E t \in Threads: StubIsBlocked(t)
  \/ \E t \in Threads: StubPoliciesFrom(t, RatePolicyLists)
  \/ \E t \in Threads: Evaluate(t)
  \/ \E t \in Threads: UserFunctionFrom(t, PlainOutcomes)
  \/ \E t \in Threads: Harvest(t)
  \/ \E t \in Threads: Record(t)
  \/ \E t \in Threads: Send(t)

SpecRate == InitRate /\ [][NextRate]_vars

\* cost.py alone: prices are overridden and estimates asked for.
InitCost ==
  /\ pricing = NewPricing
  /\ tracker = NewTracker
  /\ transport = NewTransport(DefaultBatchSize, DefaultMaxQueueSize)
  /\ trace = NewTrace
  /\ now = 0
  /\ hour = 12
  /\ status_checker = "none"
  /\ send_raises = FALSE
  /\ cache = [a \in Agents |-> NoEntry]
  /\ counts = [a \in Agents |-> <<>>]
  /\ th = [t \in Threads |-> Idle]
  /\ hist = [a \in Agents |-> NoHist]

NextCost ==
  \/ \E m \in CostModels, p \in CustomPrices: SetCustomPricing(m, p)
  \/ \E m \in CostModels, i \in TokenCounts, o \in TokenCounts:
       EstimateCost(m, i, o)

SpecCost == InitCost /\ [][NextCost]_vars

\* The wrapper under a TIME_RESTRICTION policy, at every hour of the day.
TimePolicyLists == {<<PolTimeWrap>>, <<PolTimeDay>>}

InitTime ==
  /\ hour \in AllHours
  /\ status_checker = "stub"
  /\ send_raises = FALSE
  /\ transport = NewTransport(DefaultBatchSize, DefaultMaxQueueSize)
  /\ trace = NewTrace
  /\ pricing = NewPricing
  /\ tracker = NewTracker
  /\ now = 0
  /\ cache = [a \in Agents |-> NoEntry]
  /\ counts = [a \in Agents |-> <<>>]
  /\ th = [t \in Threads |-> Idle]
  /\ hist = [a \in Agents |-> NoHist]

NextTime ==
  \/ \E t \in WrapThreads, a \in WrapAgents: StartCall(t, a)
  \/ \E t \in WrapThreads: StubIsBlocked(t)
  \/ \E t \in WrapThreads: StubPoliciesFrom(t, TimePolicyLists)
  \/ \E t \in WrapThreads: Evaluate(t)
  \/ \E t \in WrapThreads: UserFunction(t)
  \/ \E t \in WrapThreads: Harvest(t)
  \/ \E t \in WrapThreads: Record(t)
  \/ \E t \in WrapThreads: Send(t)

SpecTime == InitTime /\ [][NextTime]_vars

\* One trace: callers start, end and let go of spans.
InitTrace ==
  /\ trace = NewTrace
  /\ pricing = NewPricing
  /\ tracker = NewTracker
  /\ transport = NewTransport(DefaultBatchSize, DefaultMaxQueueSize)
  /\ now = 0
  /\ hour = 12
  /\ status_checker = "none"
  /\ send_raises = FALSE
  /\ cache = [a \in Agents |-> NoEntry]
  /\ counts = [a \in Agents |-> <<>>]
  /\ th = [t \in Threads |-> Idle]
  /\ hist = [a \in Agents |-> NoHist]

NextTrace ==
  \/ \E h \in Handles: StartSpan(h)
  \/ \E h \in Handles: EndSpan(h)
  \/ \E h \in Handles: DropSpan(h)

SpecTrace == InitTrace /\ [][NextTrace]_vars

\* One trace: blocks of "with trace.span(...)" are entered, set the span's
\* fields and are left.
NextScope ==
  \/ \E h \in Handles: EnterSpan(h)
  \/ \E h \in Handles: SetSpanFields(h)
  \/ \E h \in Handles, how \in ExitKinds: ExitSpan(h, how)

SpecScope == InitTrace /\ [][NextScope]_vars

\* One reference at a time, the spans given strings as input and output.
IOHandles == {"h1"}

NextSpanIO ==
  \/ \E h \in IOHandles, s \in Texts: StartSpanWith(h, s)
  \/ \E h \in IOHandles, s \in Texts: EndSpanWith(h, s)
  \/ \E h \in IOHandles: DropSpan(h)

SpecSpanIO == InitTrace /\ [][NextSpanIO]_vars

\* The worker thread keeps running, and a join that can return does.
SpecTransportLive ==
  /\ InitTransportLive
  /\ [][NextTransport]_vars
  /\ WF_vars(Worker)
  /\ WF_vars(ShutdownReturn)


\* ============================================================ claims
Wrapped(t) == th[t].op = "wrap"
Preempted(r) == r.outcome.kind \in {"AgentBlocked", "PolicyViolation"}
PostUserPcs == {"harvest", "record", "send"}

\* C1: whenever the status checker has reported the agent blocked to a
\* wrapped call, the call has ended with AgentBlocked carrying the agent id
\* and the reason (the default text when none was given), the user function
\* was not called and no event was assembled or handed to the transport.
C1_KillSwitchPreempts ==
  \A t \in WrapThreads:
    (Wrapped(t) /\ th[t].blocked) =>
      /\ th[t].pc = "done"
      /\ th[t].outcome.kind = "AgentBlocked"
      /\ th[t].outcome.agent_id = th[t].agent
      /\ th[t].outcome.what =
           (IF th[t].reason = NoneS THEN "Agent is blocked" ELSE th[t].reason)
      /\ th[t].user = 0
      /\ th[t].handed = 0
      /\ th[t].event = NoEvent
      /\ th[t].recorded = 0

C1_Witness ==
  \E t \in WrapThreads:
    /\ Wrapped(t) /\ th[t].blocked /\ th[t].reason = "manual"
    /\ th[t].outcome.kind = "AgentBlocked" /\ th[t].outcome.what = "manual"

\* a BLOCK-enforced policy (the default when the key is missing)
IsBlock(policy) == Get(policy, "enforcement", "BLOCK") = "BLOCK"
\* policy i of the list rejects the invocation by its own rule, judged on
\* the state the evaluation starts from
Matches(t, i) ==
  /\ IsBlock(th[t].pols[i])
  /\ EvalPolicy(th[t].pols[i], counts[th[t].agent], now, hour).out = "violation"
\* evaluating policy i raises an exception
EvalRaises(t, i) ==
  EvalPolicy(th[t].pols[i], counts[th[t].agent], now, hour).out = "raise"
\* the step of thread t that evaluates its policies
Evaluates(t) == Wrapped(t) /\ th[t].pc = "eval" /\ th'[t].pc # "eval"
RaisesViolation(t) ==
  /\ th'[t].pc = "done"
  /\ th'[t].outcome.kind = "PolicyViolation"
  /\ th'[t].user = 0

RanUser(t) == Wrapped(t) /\ th[t].pc = "done" /\ th[t].user > 0
\* the caller got the user function's own value or error
GotUserOutcome(t) ==
  /\ th[t].outcome.kind = th[t].resp.kind
  /\ th[t].outcome.kind \in {"return", "raise"}
  /\ th[t].outcome.what = th[t].resp.name

\* the call of thread t ended with an error of the finally block
SdkFailed(t) ==
  Wrapped(t) /\ th[t].pc = "done" /\ th[t].outcome.kind = "sdk_error"

\* C3: with a transport whose send always raises, a call whose user function
\* ran gives the caller exactly the user function's value or error.
C3_TransportFailureHarmless ==
  \A t \in WrapThreads:
    (send_raises /\ RanUser(t)) => GotUserOutcome(t)

\* the send of the transport raises and the caller gets a TypeError for the
\* response {"usage": {"inputTokens": "abc", "outputTokens": 200}}
C3_Failing ==
  \E t \in WrapThreads:
    send_raises /\ SdkFailed(t) /\ th[t].resp.name = "usage-str"

\* C4: the only exceptions that reach the caller are AgentBlocked and
\* PolicyViolation raised before the user function was called, and the user
\* function's own error.
C4_NoSdkErrorSurfaces ==
  \A t \in WrapThreads:
    (Wrapped(t) /\ th[t].pc = "done") =>
      \/ Preempted(th[t]) /\ th[t].user = 0
      \/ th[t].user = 1 /\ GotUserOutcome(t)

\* the caller gets a TypeError for the response
\* {"usage": {"inputTokens": None, "outputTokens": 0}}
C4_Failing ==
  \E t \in WrapThreads:
    /\ SdkFailed(t) /\ th[t].resp.name = "usage-null"
    /\ th[t].user = 1 /\ th[t].resp.kind = "return"

\* C5: when a pre-check raised an exception that was swallowed and the call
\* was not deliberately rejected afterwards, the user function was called
\* exactly once and the caller got its result.
C5_FailOpenPreChecks ==
  \A t \in WrapThreads:
    (Wrapped(t) /\ th[t].pc = "done" /\ th[t].pre_swallowed > 0
       /\ ~Preempted(th[t])) =>
      /\ th[t].user = 1
      /\ GotUserOutcome(t)

\* a pre-check's exception was swallowed, the user function returned and the
\* caller got a TypeError
C5_Failing ==
  \E t \in WrapThreads:
    SdkFailed(t) /\ th[t].pre_swallowed > 0 /\ th[t].user = 1

\* C6: a finished call whose user function ran has handed exactly one event
\* to transport.send; a preempted call has handed none.
C6_OneEventPerInvocation ==
  \A t \in WrapThreads:
    (Wrapped(t) /\ th[t].pc = "done") =>
      /\ th[t].user > 0 => th[t].handed = 1
      /\ Preempted(th[t]) => th[t].handed = 0

\* the user function ran and the call ended with no event handed over
C6_Failing ==
  \E t \in WrapThreads:
    RanUser(t) /\ th[t].handed = 0 /\ th[t].event = NoEvent

\* C7: a finished call whose user function raised has handed a FAILURE /
\* invocation.failed event with the error's kind name and its message cut to
\* 500 characters, and the caller got that same error; a SUCCESS /
\* invocation.completed event was handed only for a user function that
\* returned.
C7_FailurePath ==
  \A t \in WrapThreads:
    (Wrapped(t) /\ th[t].pc = "done" /\ th[t].user > 0) =>
      /\ th[t].resp.kind = "raise" =>
           /\ th[t].handed = 1
           /\ th[t].event.status = "FAILURE"
           /\ th[t].event.event_type = "invocation.failed"
           /\ th[t].event.error_type = th[t].resp.name
           /\ th[t].event.error_len =
                (IF th[t].resp.msg_len > 500 THEN 500 ELSE th[t].resp.msg_len)
           /\ GotUserOutcome(t)
      /\ (th[t].handed = 1 /\ th[t].event.status = "SUCCESS") =>
           /\ th[t].event.event_type = "invocation.completed"
           /\ th[t].resp.kind = "return"

\* the user function raised KeyboardInterrupt and a SUCCESS event was handed
\* over
C7_Failing ==
  \E t \in WrapThreads:
    /\ RanUser(t) /\ th[t].resp.name = "KeyboardInterrupt"
    /\ th[t].handed = 1 /\ th[t].event.status = "SUCCESS"
    /\ th[t].event.event_type = "invocation.completed"
    /\ th[t].outcome.what = "KeyboardInterrupt"

\* the number of timestamps of the list inside the window of w seconds
InWindow(ts, nowv, w) == Cardinality({i \in DOMAIN ts: ts[i] > nowv - w})
OnlyRatePolicy(t) ==
  /\ Len(th[t].pols) = 1
  /\ th[t].pols[1].policy_id = "rate"

\* the threshold alone: under the one policy RATE_LIMIT (BLOCK,
\* max_invocations 2, window 1 minute) a call is rejected with
\* PolicyViolation(RATE_LIMIT) iff at least 2 invocations are recorded inside
\* the window
RejectedIffWindowFull ==
  [][\A t \in WrapThreads:
       (Evaluates(t) /\ OnlyRatePolicy(t)) =>
         /\ (RaisesViolation(t) /\ th'[t].outcome.policy_type = "RATE_LIMIT")
              <=> InWindow(counts[th[t].agent], now, 60) >= 2
         /\ ~RaisesViolation(t) => th'[t].pc = "user"
     ]_vars

\* C8: under the one policy RATE_LIMIT (BLOCK, max_invocations 2, window 1
\* minute) a call is rejected with PolicyViolation(RATE_LIMIT) iff at least 2
\* invocations are recorded inside the window, and every call let through by
\* the policy that ran the user function is recorded when it ends, so that
\* the call after 2 calls that ran is rejected.
C8_RateLimitSequential ==
  [][\A t \in WrapThreads:
       /\ (Evaluates(t) /\ OnlyRatePolicy(t)) =>
            ((RaisesViolation(t) /\ th'[t].outcome.policy_type = "RATE_LIMIT")
               <=> InWindow(counts[th[t].agent], now, 60) >= 2)
       /\ (Wrapped(t) /\ OnlyRatePolicy(t) /\ th[t].pc \in PostUserPcs
             /\ th'[t].pc = "done") =>
            /\ th'[t].recorded = 1
            /\ Len(counts'[th[t].agent]) > 0
     ]_vars

\* a call let through by the rate policy ran the user function and ended
\* unrecorded
C8_Failing ==
  \E t \in WrapThreads:
    /\ RanUser(t) /\ OnlyRatePolicy(t) /\ th[t].recorded = 0
    /\ counts[th[t].agent] = <<>>

\* what a direct lookup leaves: a backend call is under way
Fetching(r) == r.pc \in {"kill_fetch", "pol_fetch"}
CacheHit(a) == cache[a].present /\ now < cache[a].expires_at

\* C9: the step of a lookup that reads the cache starts a backend call iff
\* the agent has no entry or now >= expires_at; on a fresh entry it returns
\* the cached status, reason and policies and changes neither the cache nor
\* the record of backend calls.
C9_CacheHitNoFetch ==
  [][\A t \in Threads:
       LET r == th[t]
           e == cache[r.agent]
       IN  (r.pc \in {"kill_read", "pol_read"} /\ th'[t] # r) =>
             /\ Fetching(th'[t]) <=> ~CacheHit(r.agent)
             /\ Fetching(th'[t]) =>
                  /\ th'[t].fetches = r.fetches + 1
                  /\ hist'[r.agent].log # <<>>
             /\ CacheHit(r.agent) =>
                  /\ th'[t].pc = "done"
                  /\ th'[t].fetches = 0
                  /\ cache' = cache
                  /\ hist'[r.agent].log = hist[r.agent].log
                  /\ r.pc = "kill_read" =>
                       /\ th'[t].blocked = (e.status = "BLOCKED")
                       /\ th'[t].reason = e.blocked_reason
                  /\ r.pc = "pol_read" => th'[t].pols = e.policies
     ]_vars

\* a lookup answered from a fresh BLOCKED entry, and a backend call made
\* for an agent whose entry had expired
C9_Witness ==
  \E t, u \in Threads:
    /\ th[t].pc = "done" /\ th[t].fetches = 0 /\ th[t].blocked
    /\ th[t].reason = "manual" /\ CacheHit(th[t].agent)
    /\ th[u].pc = "kill_fetch" /\ cache[th[u].agent].present

CeilDiv(n, d) == (n + d - 1) \div d
\* at most ceil(elapsed / TTL) + 1 backend calls in every window spanned by
\* recorded calls
FreshnessBound(log) ==
  \A i, j \in DOMAIN log:
    i < j => (j - i + 1) <= CeilDiv(log[j] - log[i], TTL) + 1

FetchFails(t) ==
  /\ th[t].pc \in {"kill_fetch", "pol_fetch"}
  /\ th'[t].pc \notin {"kill_fetch", "pol_fetch", "kill_reread", "pol_reread"}

\* C11: when the backend call of a lookup raises, is_blocked returns
\* (False, None) and get_policies returns [], and the cache is exactly as it
\* was before, so an agent without a fresh entry still has none.
C11_FetchErrorFailsOpen ==
  [][\A t \in Threads:
       FetchFails(t) =>
         /\ th'[t].pc = "done"
         /\ th[t].pc = "kill_fetch" =>
              (~th'[t].blocked /\ th'[t].reason = NoneS)
         /\ th[t].pc = "pol_fetch" => th'[t].pols = <<>>
         /\ cache' = cache
         /\ ~CacheHit(th[t].agent) =>
              ~(cache'[th[t].agent].present
                  /\ now' < cache'[th[t].agent].expires_at)
     ]_vars

\* after a failed backend call the next lookup, at the same instant, is
\* fetching again: two calls that did not overlap started at one time
C11_Witness ==
  \E t \in Threads:
    LET h == hist[th[t].agent]
    IN  /\ th[t].pc \in {"kill_fetch", "pol_fetch"}
        /\ h.failed /\ ~h.overlapped
        /\ Len(h.log) >= 2
        /\ h.log[Len(h.log)] = h.log[Len(h.log) - 1]
        /\ ~cache[th[t].agent].present

\* thread t takes a step of a lookup of agent a
LookupStep(t, a) ==
  /\ th[t].agent = a
  /\ th[t].pc \notin {"idle", "done"}
  /\ th'[t] # th[t]

\* C12: for distinct agents a and b, no step of a lookup of a (hit, backend
\* call, insert, failed call) and no invalidate(a) changes b's entry; and a
\* lookup of b answered from the cache returns what b's own entry holds.
C12_CacheIndependence ==
  [][\A a, b \in Agents:
       a # b =>
         /\ Invalidate(a) => cache'[b] = cache[b]
         /\ \A t \in Threads:
              /\ LookupStep(t, a) => cache'[b] = cache[b]
              /\ (LookupStep(t, b) /\ th'[t].pc = "done"
                    /\ th[t].pc \in {"kill_read", "kill_reread"}
                    /\ cache[b].present) =>
                   /\ th'[t].blocked = (cache[b].status = "BLOCKED")
                   /\ th'[t].reason = cache[b].blocked_reason
              /\ (LookupStep(t, b) /\ th'[t].pc = "done"
                    /\ th[t].pc \in {"pol_read", "pol_reread"}
                    /\ cache[b].present) =>
                   th'[t].pols = cache[b].policies
     ]_vars

\* a1 is cached BLOCKED and a2 ACTIVE at once, and a lookup of each was
\* answered from its own entry
C12_Witness ==
  \E t, u \in Threads:
    /\ th[t].agent = "a1" /\ th[t].op = "is_blocked" /\ th[t].pc = "done"
    /\ th[t].blocked /\ th[t].fetches = 0
    /\ th[u].agent = "a2" /\ th[u].op = "is_blocked" /\ th[u].pc = "done"
    /\ ~th[u].blocked /\ th[u].fetches = 0
    /\ CacheHit("a1") /\ cache["a1"].status = "BLOCKED"
    /\ CacheHit("a2") /\ cache["a2"].status = "ACTIVE"

\* the step of thread t that reads the cache at the start of a lookup
ReadsCache(t) == th[t].pc \in {"kill_read", "pol_read"} /\ th'[t] # th[t]

\* C13 (as claimed): the first lookup of an agent after its entry was removed
\* by invalidate or clear_cache makes a backend call.
C13_RefetchAfterRemoval ==
  [][\A t \in Threads:
       (ReadsCache(t) /\ hist[th[t].agent].removed # "no") => Fetching(th'[t])
     ]_vars

\* C13 (amended): invalidate(a) leaves a without an entry and clear_cache()
\* leaves every agent without one; and the first lookup of an agent after its
\* entry was removed makes a backend call, provided no backend call for that
\* agent was under way when the entry was removed.
C13_RefetchAfterQuietRemoval ==
  [][/\ \A a \in Agents: Invalidate(a) => ~cache'[a].present
     /\ ClearCache => \A a \in Agents: ~cache'[a].present
     /\ \A t \in Threads:
          (ReadsCache(t) /\ hist[th[t].agent].removed = "quiet") =>
            (Fetching(th'[t]) /\ th'[t].fetches = 1)
    ]_vars

\* within the first TTL two lookups of one agent, not overlapping, each made
\* a backend call that returned, and only the later one is in the history:
\* the entry, still fresh, was removed between them
C13_Witness ==
  \E t, u \in Threads:
    LET a == th[t].agent
    IN  /\ t # u /\ th[u].agent = a
        /\ th[t].pc = "done" /\ th[t].fetches = 1
        /\ th[u].pc = "done" /\ th[u].fetches = 1
        /\ now < TTL
        /\ ~hist[a].failed /\ ~hist[a].overlapped
        /\ hist[a].removed = "no" /\ Len(hist[a].log) = 1
        /\ CacheHit(a)


\* ----------------------------------------------------------- transport
\* the events sent before the latest shutdown() call that the worker still
\* holds unflushed, in the queue or in its batch
RangeOf(q) == {q[i] : i \in 1..Len(q)}

LeftUnflushed ==
  {e \in RangeOf(transport.queue) \cup RangeOf(transport.batch) :
     e <= transport.mark}

Drained == transport.wpc = "exit" /\ LeftUnflushed = {}

BackoffSequence == <<1, 2, 4>>

\* the attempt raised or was answered 5xx
Retryable(r) == r.raised \/ r.status_code >= 500

\* a flush under way or finished: its POSTs are bounded, and its waits are
\* the first waits of the sequence, one between each two attempts
FlushInBounds(f, attempts_made) ==
  /\ f.posts <= MAX_RETRIES + 1
  /\ f.posts = attempts_made
  /\ Len(f.slept) <= Len(BackoffSequence)
  /\ f.slept = SubSeq(BackoffSequence, 1, Len(f.slept))

RetryBound ==
  LET f == transport.flush
      l == transport.last
  IN  /\ f.fpc = "post" => FlushInBounds(f, Len(f.slept))
      /\ f.fpc = "sleep" => FlushInBounds(f, Len(f.slept) + 1)
      /\ l.site # "none" => FlushInBounds(l, Len(l.slept) + 1)

\* one attempt: a 5xx response or an exception is followed by a wait and a
\* retry exactly when an attempt is left
AttemptStep ==
  LET f == transport.flush
      g == transport'.flush
      l == transport'.last
  IN  (transport.wpc = "flush" /\ f.fpc = "post" /\ g # f) =>
        \/ /\ g.fpc = "sleep" /\ g.posts = f.posts + 1
           /\ Retryable(g.response) /\ f.attempt < MAX_RETRIES
        \/ /\ g = NoFlush /\ l.posts = f.posts + 1
           /\ Retryable(l.response) => f.attempt = MAX_RETRIES

\* C15: one HTTP flush makes at most MAX_RETRIES + 1 = 4 POSTs whatever the
\* server answers, a 5xx or an exception before the fourth attempt is
\* followed by a retry, and the waits between attempts are 1, 2, 4 seconds
\* in that order, none after the last attempt.
C15_RetryBound == []RetryBound /\ [][AttemptStep]_vars

C15_Witness ==
  /\ transport.last.posts = MAX_RETRIES + 1
  /\ transport.last.slept = BackoffSequence
  /\ transport.last.response.status_code = 500

\* the attempt was answered 4xx
ClientError(r) == ~r.raised /\ 400 <= r.status_code /\ r.status_code <= 499

\* an attempt answered 4xx ends the flush: nothing is posted or slept after
\* it, and a 4xx at the first attempt leaves exactly one POST
ClientErrorStep ==
  LET f == transport.flush
      g == transport'.flush
      l == transport'.last
  IN  (/\ transport.wpc = "flush" /\ f.fpc = "post" /\ g # f
       /\ ClientError(IF g = NoFlush THEN l.response ELSE g.response)) =>
        /\ g = NoFlush
        /\ transport'.wpc # "flush"
        /\ l.posts = f.posts + 1
        /\ l.slept = f.slept
        /\ f.attempt = 0 => l.posts = 1

\* no flush waits or posts with a 4xx answer in hand
NeverGoesOnAfterClientError == ~ClientError(transport.flush.response)

\* C16: a 4xx response at any attempt ends the flush at once, with no
\* further POST and no further sleep; a 4xx at the first attempt makes the
\* flush exactly one POST.
C16_NoRetryOn4xx == []NeverGoesOnAfterClientError /\ [][ClientErrorStep]_vars

C16_Witness ==
  /\ ClientError(transport.last.response)
  /\ transport.last.posts = 3
  /\ transport.last.slept = <<1, 2>>

\* C17 as stated: in every reachable state the queue holds at most
\* max_queue_size items.
C17_QueueWithinMaxQueueSize ==
  Len(transport.queue) <= transport.max_queue_size

\* send() returns in one step whatever the queue holds
SendNeverBlocks == transport.sends < MaxSends => ENABLED TransportSend

BoundedQueue ==
  transport.max_queue_size >= 1 =>
    Len(transport.queue) <= transport.max_queue_size

\* a send() on a queue that holds max_queue_size items drops the event and
\* leaves the queue as it was; any other send() appends the event
SendStep ==
  (transport'.sends = transport.sends + 1 /\ transport.max_queue_size >= 1) =>
    IF Len(transport.queue) = transport.max_queue_size
    THEN /\ transport'.queue = transport.queue
         /\ transport'.dropped = transport.dropped + 1
    ELSE /\ transport'.queue = Append(transport.queue, transport'.sends)
         /\ transport'.dropped = transport.dropped

\* C17: send() never blocks the caller; for max_queue_size >= 1, a send() on
\* a queue that already holds max_queue_size items drops the event and
\* leaves the queue unchanged, and the queue never holds more than
\* max_queue_size items.
C17_BoundedNonBlockingEnqueue ==
  [](SendNeverBlocks /\ BoundedQueue) /\ [][SendStep]_vars

C17_Witness ==
  /\ transport.max_queue_size = 2
  /\ Len(transport.queue) = 2
  /\ transport.dropped >= 1

\* C18: once shutdown() has set the shutdown signal the worker, whatever
\* its queue and batch hold, leaves its loop, drains, makes its final flush
\* and terminates, and shutdown() returns; every HTTP attempt returns and
\* callers send finitely many events.
C18_WorkerTerminates ==
  /\ transport.shutdown ~> transport.wpc = "exit"
  /\ transport.spc = "joining" ~> transport.spc = "returned"

C18_Witness ==
  /\ transport.shutdown /\ transport.wpc = "exit"
  /\ transport.spc = "returned" /\ transport.timed_out
  /\ transport.last.site = "final"

\* --------------------------------------------------------------- traces
\* C19: whatever spans are started, ended and let go of, in any order, the
\* trace stores at most MAX_SPANS_PER_TRACE = 100 spans.
C19_SpanBound == SpanCount(trace) <= MAX_SPANS_PER_TRACE

C19_Witness ==
  /\ SpanCount(trace) = MAX_SPANS_PER_TRACE
  /\ \E h \in Handles: trace.handle[h].kind = "detached"

\* what to_dicts() serializes and what the stack holds
Stored(tr) == <<tr.held, tr.unheld>>

OnStack(tr) == {tr.stack[i] : i \in 1..Len(tr.stack)}

\* a span returned at the limit is in neither the list nor the stack
DetachedNowhere ==
  \A h \in Handles:
    trace.handle[h].kind = "detached" =>
      h \notin trace.held /\ h \notin OnStack(trace)

\* start_span at the limit returns a fresh span and stores nothing; ending
\* such a span changes neither the list nor the stack
DetachedStep ==
  \A h \in Handles:
    /\ (StartSpan(h) /\ SpanCount(trace) >= MAX_SPANS_PER_TRACE) =>
         /\ trace'.handle[h] = NewSpan("detached", "none")
         /\ Stored(trace') = Stored(trace)
         /\ trace'.stack = trace.stack
    /\ (EndSpan(h) /\ trace.handle[h].kind = "detached") =>
         /\ trace'.handle[h] = [NewSpan("detached", "none") EXCEPT !.ended = TRUE]
         /\ Stored(trace') = Stored(trace)
         /\ trace'.stack = trace.stack

\* C20: once 100 spans are stored, start_span returns a span that is neither
\* appended to the list nor pushed on the stack; ending it leaves the list
\* and the stack unchanged, and it is never among the spans to_dicts()
\* serializes.
C20_DetachedSpans == []DetachedNowhere /\ [][DetachedStep]_vars

C20_Witness ==
  /\ SpanCount(trace) = MAX_SPANS_PER_TRACE
  /\ trace.stack # <<>>
  /\ \E h \in Handles:
       trace.handle[h] = [NewSpan("detached", "none") EXCEPT !.ended = TRUE]

\* the strings given to start_span and end_span, with what the span stores
GivenAndStored ==
  {<<trace.handle[h].given_in, trace.handle[h].input>> : h \in Handles}
    \cup {<<trace.handle[h].given_out, trace.handle[h].output>> : h \in Handles}

TruncationOccurred(given) == given.len > MAX_IO_LENGTH

\* the stored string is within the limit: the given one, or 2000 characters
StoredWithinLimit(given, stored) ==
  /\ stored.k = "str"
  /\ stored.len <= MAX_IO_LENGTH
  /\ ~TruncationOccurred(given) => stored = given
  /\ TruncationOccurred(given) => stored.len = MAX_IO_LENGTH

\* C21 as stated: the stored string is within the limit and ends with the
\* marker "...[truncated]" iff truncation occurred.
C21_MarkerIffTruncated ==
  \A p \in GivenAndStored:
    p[1].k = "str" =>
      /\ StoredWithinLimit(p[1], p[2])
      /\ p[2].marked <=> TruncationOccurred(p[1])

\* C21: every string given as a span input or output is stored with at most
\* MAX_IO_LENGTH = 2000 characters, unchanged when it has at most 2000 and
\* cut to exactly 2000 otherwise; a truncated string ends with the marker
\* "...[truncated]", and an untruncated one ends with it only if the given
\* string did.
C21_IOTruncation ==
  \A p \in GivenAndStored:
    p[1].k = "str" =>
      /\ StoredWithinLimit(p[1], p[2])
      /\ TruncationOccurred(p[1]) => p[2].marked
      /\ ~TruncationOccurred(p[1]) => (p[2].marked <=> p[1].marked)

C21_Witness ==
  \E h \in Handles:
    /\ trace.handle[h].given_in = Text(2100, FALSE)
    /\ trace.handle[h].input = Text(MAX_IO_LENGTH, TRUE)
    /\ trace.handle[h].given_out = Text(2001, FALSE)
    /\ trace.handle[h].output = Text(MAX_IO_LENGTH, TRUE)

\* ------------------------------------------------------------- policies
\* a wrapped call that got the wrap-around policy and is past its evaluation
PastWrapPolicy(t) ==
  /\ Wrapped(t) /\ th[t].pols = <<PolTimeWrap>>
  /\ th[t].pc \notin {"pol_read", "eval"}

\* C22 as stated: under a BLOCK TIME_RESTRICTION policy with allowed hours
\* [22, 6] no invocation is rejected, at any hour.
C22_WrapAroundNeverRejects ==
  \A t \in Threads:
    PastWrapPolicy(t) => th[t].outcome.kind # "PolicyViolation"

\* C22: under a BLOCK TIME_RESTRICTION policy whose allowed hours wrap past
\* midnight (start > end, as in [22, 6]) every invocation is rejected with a
\* policy violation at every UTC hour 0..23, and the user function never
\* runs.
C22_WrapAroundAlwaysRejects ==
  \A t \in Threads:
    PastWrapPolicy(t) =>
      /\ th[t].pc = "done"
      /\ th[t].outcome.kind = "PolicyViolation"
      /\ th[t].outcome.what = "time-wrap"
      /\ th[t].user = 0

C22_Witness ==
  /\ hour = 23
  /\ \E t \in Threads: PastWrapPolicy(t) /\ th[t].outcome.kind = "PolicyViolation"

\* ----------------------------------------------------------------- cost
\* two estimates for the same model, the second with no fewer tokens
Dominated(c, d) ==
  /\ c.model_id = d.model_id
  /\ c.input_tokens <= d.input_tokens
  /\ c.output_tokens <= d.output_tokens

EstimatePairs ==
  {<<pricing.calls[j], pricing.calls[k]>> : j, k \in DOMAIN pricing.calls}

NonNegativePrices(model_id) ==
  LET p == Pricing(pricing.custom, model_id)
  IN  p.input >= 0 /\ p.output >= 0

\* C23 as stated: for every model id, however it is priced, the estimate
\* does not decrease when the token counts grow.
C23_CostMonotoneAnyPrices ==
  \A e \in EstimatePairs:
    Dominated(e[1], e[2]) => e[1].cost <= e[2].cost

\* C23: for every model id whose prices are not negative (those of the
\* static table and the default are not; an override may be) and all token
\* counts i <= i' and o <= o', estimate_cost(m, i, o) <= estimate_cost(m, i', o').
C23_CostMonotonicity ==
  \A e \in EstimatePairs:
    (Dominated(e[1], e[2]) /\ NonNegativePrices(e[1].model_id)) =>
      e[1].cost <= e[2].cost

C23_Witness ==
  /\ "my.model" \in DOMAIN pricing.custom
  /\ \E e \in EstimatePairs:
       /\ Dominated(e[1], e[2]) /\ NonNegativePrices(e[1].model_id)
       /\ e[1].model_id = "my.model"
       /\ e[1].cost < e[2].cost

\* --------------------------------------------------------- rate tracker
\* no other thread has ever called the tracker: the calls are a sequence
AloneInTracker(t) ==
  \A u \in Threads \ {t}: th[u] = Idle

\* count_in_window returns, in a sequence of calls
CountReturns(t) == TrackerCountPrune(t) /\ AloneInTracker(t)

\* C24: whatever records and counts with whatever windows came before, a
\* count_in_window(agent, w) call returns the number of invocations recorded
\* for the agent in the last w seconds; an earlier count with a shorter
\* window does not lower it.
C24_SlidingWindowCount ==
  [][\A t \in Threads:
       CountReturns(t) =>
         th'[t].count =
           InWindow(tracker.all[th[t].agent], th[t].stamp, th[t].window)]_vars

\* one thread alone: its count over 90 seconds is lower than the number of
\* invocations recorded in those 90 seconds
C24_Failing ==
  /\ th["t2"] = Idle
  /\ th["t1"].op = "count" /\ th["t1"].pc = "done" /\ th["t1"].window = 90
  /\ th["t1"].count <
       InWindow(tracker.all[th["t1"].agent], th["t1"].stamp, th["t1"].window)

NonDecreasing(ts) ==
  \A i, j \in DOMAIN ts: i < j => ts[i] <= ts[j]

\* C26: in every reachable state, for every agent, the stored timestamps are
\* non-decreasing in list order, however concurrent record and
\* count_in_window calls interleave.
C26_TimestampsMonotonic ==
  \A a \in Agents: NonDecreasing(counts[a])

C26_Failing ==
  \E a \in Agents: \E i \in DOMAIN counts[a]:
    i < Len(counts[a]) /\ counts[a][i] > counts[a][i + 1]

\* the limit and the window of PolRate, in seconds
RateLimitN == PolRate.conditions.max_invocations.v
RateWindow == TimesSixty(PolRate.conditions.window_minutes).v

\* the calls of agent a whose user function has run and is not yet recorded
Unrecorded(a) ==
  {t \in Threads : Wrapped(t) /\ th[t].agent = a /\ th[t].pc \in {"harvest", "record"}}

\* C25: under a BLOCK RATE_LIMIT policy of max_invocations = N, however the
\* concurrent calls of the agent's wrapped functions interleave, at most N
\* executions of the user function start within one window.  Before the
\* first window is over every execution so far started within it: the
\* recorded ones and those not yet recorded.
C25_RateLimitConcurrent ==
  \A a \in WrapAgents:
    now < RateWindow =>
      Len(counts[a]) + Cardinality(Unrecorded(a)) <= RateLimitN

\* three executions at time 0 under the limit of two
C25_Failing ==
  /\ now = 0
  /\ Len(counts["a1"]) = 1
  /\ Unrecorded("a1") = Threads
  /\ \A t \in Threads: th[t].pols = <<PolRate>>

\* C27: every wrapped call whose user function was called appends exactly
\* one timestamp of the agent to the rate tracker, whatever the user function
\* returned or raised, and has done so by the time its event is assembled:
\* a call that has ended after running the user function has recorded once,
\* and so has a call holding an assembled event.
C27_RecordedBeforeEvent ==
  \A t \in WrapThreads:
    Wrapped(t) =>
      /\ (th[t].pc = "done" /\ th[t].user > 0) => th[t].recorded = 1
      /\ th[t].event # NoEvent => th[t].recorded = 1
      /\ th[t].recorded <= 1

\* the user function ran and the call has ended with no timestamp appended
C27_Failing ==
  \E t \in WrapThreads:
    /\ Wrapped(t) /\ th[t].pc = "done"
    /\ th[t].user = 1 /\ th[t].resp.name = "usage-str"
    /\ th[t].recorded = 0 /\ th[t].event = NoEvent
    /\ th[t].outcome.kind = "sdk_error"

\* end_span(s) pops the stack when s is its top, and s is then no longer in
\* it; otherwise the stack is as it was
EndSpanStep ==
  \A h \in Handles:
    EndSpan(h) =>
      IF trace.stack # <<>> /\ Top(trace.stack) = h
      THEN trace'.stack = Pop(trace.stack) /\ h \notin OnStack(trace')
      ELSE trace'.stack = trace.stack

\* C28: end_span(s) removes s from the active stack iff s is the current
\* top; when s is not the top the stack is left unchanged, and the entries
\* that remain keep their order.
C28_EndSpanPopsOnlyTop == [][EndSpanStep]_vars

\* h1 was ended below h2 and is still under it; h3 was ended on top of h2
\* and is gone
C28_Witness ==
  /\ trace.stack = <<"h1", "h2">>
  /\ trace.handle["h1"].ended /\ ~trace.handle["h2"].ended
  /\ trace.handle["h3"].ended /\ trace.handle["h3"].parent = "h2"

\* an entry of the stack that is a stored span not yet ended
OpenSpan(tr, e) ==
  \/ e = "unheld"
  \/ e \in tr.held /\ ~tr.handle[e].ended

\* spans were started, and every one of them has been ended
StoredSpansEnded(tr) ==
  /\ tr.held # {} /\ tr.unheld = 0
  /\ \A h \in tr.held: tr.handle[h].ended

\* C29: in every reachable state the active stack holds only stored spans
\* that were started and not yet ended; so once every started span has been
\* ended, in any order, the stack is empty; the parent of a new span being
\* the top of the stack, no new span is then parented to an ended span.
C29_StackHoldsOpenSpans ==
  /\ \A i \in 1..Len(trace.stack): OpenSpan(trace, trace.stack[i])
  /\ StoredSpansEnded(trace) => trace.stack = <<>>

\* h1 and h2 were started and h1 ended first: both are ended and h1 is left
\* on the stack
C29_Failing ==
  /\ trace.held = {"h1", "h2"} /\ trace.unheld = 0
  /\ trace.handle["h1"].ended /\ trace.handle["h2"].ended
  /\ trace.handle["h2"].parent = "h1"
  /\ trace.stack = <<"h1">>

\* a span that is stored gets the top of the stack as its parent
StartSpanStep ==
  \A h \in Handles:
    (StartSpan(h) /\ SpanCount(trace) < MAX_SPANS_PER_TRACE) =>
      /\ trace'.handle[h].kind = "stored"
      /\ trace'.handle[h].parent = ParentId(trace.stack)
      /\ trace.stack = <<>> => trace'.handle[h].parent = "none"

\* C30: the parent_span_id of every newly stored span is the span id on top
\* of the active stack when start_span runs, or null when the stack is
\* empty; spans started one inside the other and ended in reverse order form
\* a nested chain of parents.
C30_ParentIsTopOfStack == [][StartSpanStep]_vars

\* root, child and grandchild, ended in reverse order
C30_Witness ==
  /\ trace.stack = <<>>
  /\ \A h \in Handles: trace.handle[h].kind = "stored" /\ trace.handle[h].ended
  /\ trace.handle["h1"].parent = "none"
  /\ trace.handle["h2"].parent = "h1"
  /\ trace.handle["h3"].parent = "h2"

\* ------------------------------------------------- transport: batching
\* the worker enters _flush in this step
FlushStarts == transport.wpc # "flush" /\ transport'.wpc = "flush"

\* the worker waits on the queue with an item there that fills the batch, or
\* with none there and a batch that is not empty
BatchFull ==
  transport.queue # <<>> /\ Len(transport.batch) + 1 >= transport.batch_size
WaitElapsed == transport.queue = <<>> /\ transport.batch # <<>>

\* In its loop the worker enters _flush exactly on a full batch or on a
\* timeout with a batch that is not empty, and the flush over, the batch is
\* empty again.
BatchingStep ==
  /\ (FlushStarts /\ transport.wpc # "drain") =>
        transport.wpc = "get" /\ (BatchFull \/ WaitElapsed)
  /\ (transport.wpc = "get" /\ transport'.wpc # "get"
        /\ (BatchFull \/ WaitElapsed)) => FlushStarts
  /\ (transport.wpc = "flush" /\ transport'.wpc # "flush") =>
        transport'.batch = <<>>

EventIds == 1..MaxSends

\* the event is in the queue and shutdown() has not been called
AcceptedRunning(e) == e \in RangeOf(transport.queue) /\ ~transport.shutdown
HandedToFlush(e) == e \in RangeOf(transport.handed)

\* C31: while not shut down the worker flushes and resets its batch exactly
\* when the batch reaches batch_size items or when a wait of flush_interval
\* ends with no new item and a batch that is not empty; and every event
\* accepted into the queue while the worker is running is eventually handed
\* to a flush.
C31_WorkerBatching ==
  /\ [][BatchingStep]_vars
  /\ \A e \in EventIds: AcceptedRunning(e) ~> HandedToFlush(e)

\* a full batch was flushed from the loop, then a single event on a timeout,
\* with no shutdown
C31_Witness ==
  /\ ~transport.shutdown
  /\ transport.batch_size = 2
  /\ transport.handed = <<1, 2, 3>>
  /\ transport.last.site = "idle"
  /\ transport.wpc = "top"

\* the batch _flush was called with, while the flush is under way
Flushing == transport.wpc = "flush"

\* C32 as stated: every batch handed to a flush holds at least 1 and at most
\* batch_size events, the final batch of the shutdown drain included.
C32_BatchWithinBatchSize ==
  Flushing =>
    /\ Len(transport.batch) >= 1
    /\ Len(transport.batch) <= transport.batch_size

\* C32: every batch handed to a flush holds at least 1 event; a batch
\* flushed from the loop holds at most batch_size events, exactly
\* batch_size when it was flushed for being full.
C32_BatchSizes ==
  Flushing =>
    /\ Len(transport.batch) >= 1
    /\ transport.flush.site \in {"full", "idle"} =>
         Len(transport.batch) <= transport.batch_size
    /\ transport.flush.site = "full" =>
         Len(transport.batch) = transport.batch_size

\* the drain hands a batch of two to the final flush, batch_size being 1,
\* after a full batch went out from the loop
C32_Witness ==
  /\ Flushing /\ transport.flush.site = "final"
  /\ transport.batch_size = 1
  /\ Len(transport.batch) = 2
  /\ transport.last.site = "full"

Increasing(q) == \A i, j \in 1..Len(q): i < j => q[i] < q[j]

\* C34: within every batch handed to a flush the events are in the order in
\* which send() put them in the queue, however the send() calls interleave
\* with the worker.
C34_FlushOrder == Flushing => Increasing(transport.batch)

\* events 2 and 3 are flushed together, event 1 having gone out before
C34_Witness ==
  /\ Flushing /\ transport.batch = <<2, 3>>
  /\ transport.handed = <<1, 2, 3>>
  /\ transport.flush.site = "full"

\* the event is in the queue and shutdown() has been called
AcceptedAfterShutdown(e) ==
  e \in RangeOf(transport.queue) /\ transport.shutdown /\ e > transport.mark

\* C33: an event that send() accepts into the queue after shutdown() was
\* called, while the worker drains or after it has ended, is eventually
\* taken from the queue and handed to a flush.
C33_LateEventsFlushed ==
  \A e \in EventIds: AcceptedAfterShutdown(e) ~> HandedToFlush(e)

\* the worker has ended and an event sent after shutdown() is in the queue,
\* where nothing takes it from
C33_Failing ==
  /\ transport.wpc = "exit" /\ transport.spc = "returned"
  /\ ~transport.timed_out
  /\ \E e \in RangeOf(transport.queue): e > transport.mark

\* what the worker and the queue hold
WorkerState(tp) ==
  <<tp.queue, tp.batch, tp.wpc, tp.flush, tp.last, tp.handed, tp.shutdown,
    tp.sends, tp.dropped>>

\* the steps of a shutdown() call after the first leave the queue and the
\* worker as they are
LaterShutdownStep ==
  /\ (ShutdownCall /\ transport.calls >= 1) =>
        WorkerState(transport') = WorkerState(transport)
  /\ (ShutdownReturn /\ transport.calls >= 2) =>
        WorkerState(transport') = WorkerState(transport)

\* a later call whose worker has ended can return at once
LaterShutdownReturns ==
  (transport.spc = "joining" /\ transport.calls >= 2 /\ transport.wpc = "exit")
    => ENABLED ShutdownReturn

NoDuplicates(q) == \A i, j \in 1..Len(q): i # j => q[i] # q[j]

\* C40: a second shutdown() call returns without error, flushes no event a
\* second time and leaves the queue and the worker as the first call left
\* them.
C40_ShutdownIdempotent ==
  /\ [](NoDuplicates(transport.handed) /\ LaterShutdownReturns)
  /\ [][LaterShutdownStep]_vars

\* the second call has returned; the first had ended the worker after its
\* final flush
C40_Witness ==
  /\ transport.calls = 2 /\ transport.spc = "returned"
  /\ ~transport.timed_out
  /\ transport.wpc = "exit" /\ transport.last.site = "final"
  /\ Len(transport.handed) >= 2

\* ------------------------------------------------ wrapper and cache
\* the agent's entry is in the cache, fresh, with status BLOCKED
FreshBlocked(a) == Fresh(cache[a], now) /\ cache[a].status = "BLOCKED"

\* C35: whenever the user function of a wrapped call is started, the agent's
\* cache entry, if present and fresh, does not have status BLOCKED, although
\* is_blocked and get_policies read the cache separately and each may fetch.
C35_NoStartWhileFreshBlocked ==
  [][\A t \in WrapThreads:
       (Wrapped(t) /\ UserFunction(t)) => ~FreshBlocked(th[t].agent)]_vars

\* the kill switch found the agent ACTIVE, the entry expired, the fetch of
\* get_policies stored BLOCKED, and the call goes on to the user function
C35_Failing ==
  \E t \in WrapThreads:
    /\ Wrapped(t) /\ th[t].pc = "user" /\ ~th[t].blocked
    /\ th[t].fetches = 2 /\ th[t].pre_swallowed = 0
    /\ FreshBlocked(th[t].agent)
    /\ cache[th[t].agent].expires_at = now + TTL

\* the threads with a backend call for agent a under way
FetchingFor(a) == {t \in Threads : th[t].agent = a /\ Fetching(th[t])}

\* C36: when every backend call succeeds, concurrent lookups of one agent
\* that find no entry or an expired one cause at most one backend GET: two
\* fetches for the same agent are never under way at the same time.
C36_SingleFetchPerExpiry ==
  \A a \in CacheAgents:
    ~hist[a].failed => Cardinality(FetchingFor(a)) <= 1

\* two is_blocked calls for the agent both missed the empty cache and both
\* have their GET under way
C36_Failing ==
  /\ ~cache["a1"].present /\ ~hist["a1"].failed
  /\ FetchingFor("a1") = Threads
  /\ \A t \in Threads: th[t].op = "is_blocked" /\ th[t].fetches = 1

\* the entry made of a body's status, blocked_reason and policies, and the
\* entry {ACTIVE, null, []}, both expiring TTL from now
ParsedEntry(b) ==
  [present |-> TRUE, status |-> StatusBodies[b].status,
   blocked_reason |-> StatusBodies[b].blocked_reason,
   policies |-> StatusBodies[b].policies, expires_at |-> now + TTL]
ActiveEntry ==
  [present |-> TRUE, status |-> "ACTIVE", blocked_reason |-> NoneS,
   policies |-> <<>>, expires_at |-> now + TTL]

\* thread t's backend call is answered in this step
Answered(t) ==
  /\ Fetching(th[t])
  /\ th'[t].pc \in {"kill_reread", "pol_reread"}

\* C37 as stated: on every HTTP 2xx response the status, blocked_reason and
\* policies of the body are inserted in the cache with expiry now + TTL;
\* only non-2xx responses are cached as {ACTIVE, null, []}.
C37_ParsedOnEvery2xx ==
  [][\A t \in Threads:
       Answered(t) =>
         cache'[th[t].agent] =
           IF th'[t].got.code >= 200 /\ th'[t].got.code < 300
           THEN ParsedEntry(th'[t].got.body) ELSE ActiveEntry]_vars

\* C37: on an HTTP 200 response the status, blocked_reason and policies of
\* the body are inserted in the cache with expiry now + TTL; every other
\* status code, the other 2xx included, is cached as {ACTIVE, null, []}.
C37_ParsedOn200 ==
  [][\A t \in Threads:
       Answered(t) =>
         cache'[th[t].agent] =
           IF th'[t].got.code = 200
           THEN ParsedEntry(th'[t].got.body) ELSE ActiveEntry]_vars

\* a 2xx response other than 200 whose body says BLOCKED was cached as ACTIVE
C37_Witness ==
  \E t \in Threads:
    /\ th[t].pc = "kill_reread"
    /\ th[t].got.code = 204
    /\ StatusBodies[th[t].got.body].status = "BLOCKED"
    /\ cache[th[t].agent] = ActiveEntry

\* thread t's call is rejected in this step
RejectedStep(t) ==
  /\ Wrapped(t) /\ th[t].pc # "done"
  /\ th'[t].pc = "done" /\ Preempted(th'[t])

\* no timestamp is appended to any agent's list (count_in_window may prune)
NoTimestampAppended ==
  \A a \in Agents:
    /\ Len(counts'[a]) <= Len(counts[a])
    /\ RangeOf(counts'[a]) \subseteq RangeOf(counts[a])

\* a rejected call has not run the user function, whose trace is set up just
\* before it, has recorded nothing and has assembled and handed over no event
RejectedLeavesNothing ==
  \A t \in WrapThreads:
    (Wrapped(t) /\ th[t].pc = "done" /\ Preempted(th[t])) =>
      /\ th[t].user = 0 /\ th[t].recorded = 0
      /\ th[t].event = NoEvent /\ th[t].handed = 0

\* C39: a wrapped call rejected with AgentBlocked or PolicyViolation appends
\* no timestamp to the rate tracker, creates no trace or span and enqueues
\* nothing, so that rejected calls do not count toward later rate-limit
\* evaluations.
C39_RejectedCallsNotCounted ==
  /\ []RejectedLeavesNothing
  /\ [][\A t \in WrapThreads:
          RejectedStep(t) =>
            /\ NoTimestampAppended
            /\ transport' = transport /\ trace' = trace]_vars

\* a call rejected by the rate limit of 2, the two timestamps of the calls
\* before it being all there is
C39_Witness ==
  \E t \in WrapThreads:
    /\ Wrapped(t) /\ th[t].pc = "done"
    /\ th[t].outcome.kind = "PolicyViolation"
    /\ th[t].outcome.policy_type = "RATE_LIMIT"
    /\ Len(counts[th[t].agent]) = 2
    /\ th[t].recorded = 0 /\ th[t].user = 0

\* --------------------------------------------------------- scoped spans
\* the fields end_span is given on a normal exit: the span's own
OwnFields(sp) == <<sp.output, sp.status, sp.error>>

\* the block of span h is left in this step: the span is ended, popped if it
\* is the top of the stack, and the way the block was left reaches the caller
ScopeExitStep(h, how) ==
  ExitSpan(h, how) =>
    /\ trace'.handle[h].ended
    /\ trace'.handle[h].scope = how
    /\ trace'.stack = IF Top(trace.stack) = h THEN Pop(trace.stack)
                      ELSE trace.stack
    /\ how = "normal" =>
         OwnFields(trace'.handle[h]) = OwnFields(trace.handle[h])
    /\ how # "normal" =>
         /\ trace'.handle[h].status = "ERROR"
         /\ trace'.handle[h].error = "str(exc)"

\* C38: the span of a block run inside trace.span(...) is ended on every exit
\* of the block: on a normal exit with the span's own output, status and
\* error; on an error exit with status ERROR and error = str(error); it is
\* popped from the active stack if it is the top, and the error goes on to
\* the caller.
C38_ScopedSpanEnded ==
  [][\A h \in Handles, how \in ExitKinds: ScopeExitStep(h, how)]_vars

\* a block was left by an error that is no Exception: its span is not ended
\* and still on the stack, and a span started afterwards has it as parent
C38_Failing ==
  /\ trace.handle["h1"].scope = "BaseException"
  /\ ~trace.handle["h1"].ended /\ trace.handle["h1"].status = "OK"
  /\ trace.stack = <<"h1", "h2">>
  /\ trace.handle["h2"].parent = "h1" /\ trace.handle["h2"].scope = "open"
====
